---- MODULE Spec2Model ----
(***************************************************************************)
(* A model of go-protohcl: the annotation resolver (GetFieldElem), the     *)
(* schema compiler (bodySchema), the body-to-message decoder (DecodeBody)  *)
(* and the message-to-value reflector (ObjectValueForMessage,              *)
(* ObjectTypeConstraintForMessageDesc).                                    *)
(*                                                                         *)
(* The library is pure: every operation is an operator over its inputs,    *)
(* and each specification draws the inputs in Init and applies the         *)
(* operations as actions.  A Go panic (nil dereference, explicit panic) is *)
(* an outcome of its own, "panic", that every caller propagates.           *)
(***************************************************************************)
EXTENDS Integers, Sequences, FiniteSets, TLC

VARIABLES
    pc,         \* position of the driver: which operations have been applied
    field,      \* the field descriptor handed to GetFieldElem
    desc,       \* the message descriptor handed to bodySchema / DecodeBody
    body,       \* the hcl.Body handed to DecodeBody
    msg,        \* the message handed to ObjectValueForMessage
    elemRes,    \* result of GetFieldElem(field)
    schemaRes,  \* result of bodySchema(desc)
    decodeRes,  \* result of DecodeBody(body, desc, ctx)
    valueRes,   \* result of ObjectValueForMessage(msg)
    typeRes,    \* result of ObjectTypeConstraintForMessageDesc(desc)
    again,      \* result of decoding the reflected value a second time
    mapOrder,   \* the order in which this run's Go map iterations visit keys
    builtRes    \* result of valueForMessageField, or of Error() on its error

vars == <<pc, field, desc, body, msg, elemRes, schemaRes, decodeRes, valueRes, typeRes, again, mapOrder,
          builtRes>>

None == [out |-> "none"]

(***************************************************************************)
(* Descriptors.  A field descriptor carries its kind, its cardinality, the *)
(* message descriptor it refers to (message kind) and the four extension   *)
(* payloads of hcl.proto.  proto.GetExtension returns a nil pointer for an *)
(* absent message-typed extension: present = FALSE.                        *)
(***************************************************************************)
NoAttr  == [present |-> FALSE, Name |-> "", Required |-> FALSE, Type |-> "", Raw |-> "NOT_RAW"]
NoBlock == [present |-> FALSE, TypeName |-> "", Kind |-> "AUTO"]
NoLabel == [present |-> FALSE, Name |-> ""]

AttrOpts(name, required, type, raw) ==
    [present |-> TRUE, Name |-> name, Required |-> required, Type |-> type, Raw |-> raw]
BlockOpts(typeName, kind) == [present |-> TRUE, TypeName |-> typeName, Kind |-> kind]
LabelOpts(name) == [present |-> TRUE, Name |-> name]

NoDesc == [FullName |-> "", Fields |-> <<>>, Oneofs |-> <<>>]

\* A field descriptor.  card is "single", "list" or "map"; for a map, kind
\* is the kind of the map value and keyKind the kind of the key.
Field(fullName, kind, card, keyKind, message, attr, block, flatten, label) ==
    [FullName |-> fullName, kind |-> kind, card |-> card, keyKind |-> keyKind,
     message |-> message, attr |-> attr, block |-> block, flatten |-> flatten,
     label |-> label]

IsList(f) == f.card = "list"
IsMap(f)  == f.card = "map"

(***************************************************************************)
(* schemaError / schemaErrorf: the declaration and the formatted reason.   *)
(***************************************************************************)
schemaErrorf(decl, format, args) == [Decl |-> decl, Err |-> [format |-> format, args |-> args]]

ElemError(e) == [out |-> "error", err |-> e, elem |-> [k |-> "nil"]]
ElemOk(e)    == [out |-> "ok", err |-> schemaErrorf("", "", <<>>), elem |-> e]
ElemPanic    == [out |-> "panic", err |-> schemaErrorf("", "", <<>>), elem |-> [k |-> "nil"]]

NilElem == [k |-> "nil"]
FieldAttribute(name, required, typeExprString, rawMode, targetField) ==
    [k |-> "FieldAttribute", Name |-> name, Required |-> required,
     TypeExprString |-> typeExprString, RawMode |-> rawMode, TargetField |-> targetField]
FieldNestedBlockType(typeName, nested, repeated, collectionKind) ==
    [k |-> "FieldNestedBlockType", TypeName |-> typeName, Nested |-> nested,
     Repeated |-> repeated, CollectionKind |-> collectionKind]
FieldFlattened(nested) == [k |-> "FieldFlattened", Nested |-> nested]
FieldBlockLabel(name)  == [k |-> "FieldBlockLabel", Name |-> name]

\* attrOpts.Name read through a pointer that may be nil.
DerefName(opts, then) == IF opts.present THEN then ELSE ElemPanic

\* A faulty variant of the attribute case: a bytes field is accepted
\* without raw mode.
GetFieldElemAttrBytesUnchecked(f) ==
    LET attrOpts == f.attr  blockOpts == f.block  labelOpts == f.label IN
    IF (blockOpts.present /\ blockOpts.TypeName # "") \/ f.flatten \/ (labelOpts.present /\ labelOpts.Name # "")
    THEN ElemError(schemaErrorf(f.FullName, "cannot be both attribute %q and nested block type %q",
                                <<attrOpts.Name, blockOpts.TypeName>>))
    ELSE IF attrOpts.Raw # "NOT_RAW" /\ (IsList(f) \/ IsMap(f) \/ f.kind # "bytes" \/ attrOpts.Type = "") THEN
        ElemError(schemaErrorf(f.FullName, "raw mode is allowed only for 'bytes' fields", <<>>))
    ELSE
        ElemOk(FieldAttribute(attrOpts.Name, attrOpts.Required, attrOpts.Type, attrOpts.Raw, f))

GetFieldElemAttr(f) ==
    LET attrOpts == f.attr  blockOpts == f.block  labelOpts == f.label IN
    IF blockOpts.present /\ blockOpts.TypeName # "" THEN
        ElemError(schemaErrorf(f.FullName, "cannot be both attribute %q and nested block type %q",
                               <<attrOpts.Name, blockOpts.TypeName>>))
    ELSE IF f.flatten THEN
        ElemError(schemaErrorf(f.FullName, "cannot be attribute %q and also flatten into the current body",
                               <<attrOpts.Name>>))
    ELSE IF labelOpts.present /\ labelOpts.Name # "" THEN
        ElemError(schemaErrorf(f.FullName, "cannot be both attribute %q and block label %q",
                               <<attrOpts.Name, labelOpts.Name>>))
    ELSE IF IsMap(f) /\ f.keyKind # "string" THEN
        ElemError(schemaErrorf(f.FullName, "HCL only supports maps with string keys", <<>>))
    ELSE IF attrOpts.Raw # "NOT_RAW" /\ IsList(f) THEN
        ElemError(schemaErrorf(f.FullName, "cannot use raw mode with 'repeated' field", <<>>))
    ELSE IF attrOpts.Raw # "NOT_RAW" /\ IsMap(f) THEN
        ElemError(schemaErrorf(f.FullName, "cannot use raw mode with map field", <<>>))
    ELSE IF attrOpts.Raw # "NOT_RAW" /\ f.kind # "bytes" THEN
        ElemError(schemaErrorf(f.FullName, "raw mode is allowed only for 'bytes' fields", <<>>))
    ELSE IF attrOpts.Raw # "NOT_RAW" /\ attrOpts.Type = "" THEN
        ElemError(schemaErrorf(f.FullName, "must specify (hcl.attr).type for this raw-mode field", <<>>))
    ELSE IF attrOpts.Raw = "NOT_RAW" /\ f.kind = "bytes" THEN
        ElemError(schemaErrorf(f.FullName, "'bytes' fields must have raw mode enabled", <<>>))
    ELSE
        ElemOk(FieldAttribute(attrOpts.Name, attrOpts.Required, attrOpts.Type, attrOpts.Raw, f))

GetFieldElemBlock(f) ==
    LET attrOpts == f.attr  blockOpts == f.block  labelOpts == f.label
        collectionKind == IF IsList(f) /\ blockOpts.Kind = "AUTO" THEN "TUPLE" ELSE blockOpts.Kind
    IN
    IF f.flatten THEN
        DerefName(attrOpts,
            ElemError(schemaErrorf(f.FullName,
                "cannot be nested block type %q and also flatten into the current body",
                <<attrOpts.Name>>)))
    ELSE IF labelOpts.present /\ labelOpts.Name # "" THEN
        DerefName(attrOpts,
            ElemError(schemaErrorf(f.FullName, "cannot be both nested block type %q and block label %q",
                <<attrOpts.Name, labelOpts.Name>>)))
    ELSE IF f.kind # "message" THEN
        ElemError(schemaErrorf(f.FullName, "field representing nested block must have message type, not %s",
                               <<f.kind>>))
    ELSE IF IsMap(f) THEN
        ElemError(schemaErrorf(f.FullName, "field representing nested block must not be a map", <<>>))
    ELSE IF IsList(f) /\ collectionKind \notin {"TUPLE", "LIST", "SET"} THEN
        ElemError(schemaErrorf(f.FullName, "unsupported collection kind %s", <<collectionKind>>))
    ELSE IF ~IsList(f) /\ collectionKind # "AUTO" THEN
        ElemError(schemaErrorf(f.FullName, "only repeated fields can have explicit block collection mode %s",
                               <<collectionKind>>))
    ELSE
        ElemOk(FieldNestedBlockType(blockOpts.TypeName, f.message, IsList(f), collectionKind))

GetFieldElemFlatten(f) ==
    LET labelOpts == f.label IN
    IF labelOpts.present /\ labelOpts.Name # "" THEN
        ElemError(schemaErrorf(f.FullName, "cannot be block label %q and also flatten into the current body",
                               <<labelOpts.Name>>))
    ELSE IF f.kind # "message" THEN
        ElemError(schemaErrorf(f.FullName, "field to be flattened must have message type, not %s", <<f.kind>>))
    ELSE IF f.card # "single" THEN
        ElemError(schemaErrorf(f.FullName, "field to be flattened must not be 'repeated'", <<>>))
    ELSE
        ElemOk(FieldFlattened(f.message))

GetFieldElem(f) ==
    IF f.attr.present /\ f.attr.Name # "" THEN GetFieldElemAttr(f)
    ELSE IF f.block.present /\ f.block.TypeName # "" THEN GetFieldElemBlock(f)
    ELSE IF f.flatten THEN GetFieldElemFlatten(f)
    ELSE IF f.label.present /\ f.label.Name # "" THEN ElemOk(FieldBlockLabel(f.label.Name))
    ELSE ElemOk(NilElem)

(***************************************************************************)
(* bodySchema: the hcl.BodySchema of a message descriptor, or a schema     *)
(* error.  attrs, blockTypes and blockLabels are the three name registries *)
(* (name -> full name of the declaring field).                             *)
(***************************************************************************)
EmptyMap == [x \in {} |-> ""]
MapPut(m, k, v) == [x \in (DOMAIN m) \cup {k} |-> IF x = k THEN v ELSE m[x]]

EmptySchema == [Attributes |-> <<>>, Blocks |-> <<>>]
NoError == schemaErrorf("", "", <<>>)
SchemaOk(s)    == [out |-> "ok", err |-> NoError, schema |-> s]
SchemaError(e) == [out |-> "error", err |-> e, schema |-> EmptySchema]
SchemaPanic    == [out |-> "panic", err |-> NoError, schema |-> EmptySchema]

attributeSchema(elem) == [Name |-> elem.Name, Required |-> elem.Required]

\* The label names of a block type: the BlockLabel fields of the nested
\* message in descriptor order; a field whose annotations are invalid is
\* skipped here.  pos is the next field to look at, acc the names so far.
RECURSIVE blockLabelNames(_, _, _)
blockLabelName(r, nested, pos, acc) ==
    IF r.out = "panic" THEN [out |-> "panic", names |-> <<>>]
    ELSE IF r.out = "ok" /\ r.elem.k = "FieldBlockLabel"
         THEN blockLabelNames(nested, pos + 1, Append(acc, r.elem.Name))
         ELSE blockLabelNames(nested, pos + 1, acc)
blockLabelNames(nested, pos, acc) ==
    IF pos > Len(nested.Fields) THEN [out |-> "ok", names |-> acc]
    ELSE blockLabelName(GetFieldElem(nested.Fields[pos]), nested, pos, acc)

blockTypeSchemaOf(l, elem) == [out |-> l.out, Type |-> elem.TypeName, LabelNames |-> l.names]
blockTypeSchema(elem) == blockTypeSchemaOf(blockLabelNames(elem.Nested, 1, <<>>), elem)

\* The registries and the schema built so far.
SchemaState(ret, attrs, blockTypes, blockLabels) ==
    [out |-> "ok", err |-> NoError, ret |-> ret, attrs |-> attrs,
     blockTypes |-> blockTypes, blockLabels |-> blockLabels]
SchemaStateError(e) ==
    [out |-> "error", err |-> e, ret |-> EmptySchema, attrs |-> EmptyMap,
     blockTypes |-> EmptyMap, blockLabels |-> EmptyMap]
SchemaStatePanic ==
    [out |-> "panic", err |-> NoError, ret |-> EmptySchema, attrs |-> EmptyMap,
     blockTypes |-> EmptyMap, blockLabels |-> EmptyMap]

\* case FieldAttribute of bodySchema's loop
schemaAddAttribute(f, elem, st) ==
    LET attrS == attributeSchema(elem) IN
    IF attrS.Name \in DOMAIN st.attrs THEN
        SchemaStateError(schemaErrorf(f.FullName, "declaration of attribute %q conflicts with %s",
                                      <<attrS.Name, st.attrs[attrS.Name]>>))
    ELSE IF attrS.Name \in DOMAIN st.blockTypes THEN
        SchemaStateError(schemaErrorf(f.FullName,
            "declaration of attribute %q conflicts with block type declared by %s",
            <<attrS.Name, st.blockTypes[attrS.Name]>>))
    ELSE IF attrS.Name \in DOMAIN st.blockLabels THEN
        SchemaStateError(schemaErrorf(f.FullName,
            "declaration of attribute %q conflicts with block label name declared by %s",
            <<attrS.Name, st.blockLabels[attrS.Name]>>))
    ELSE SchemaState([st.ret EXCEPT !.Attributes = Append(@, attrS)],
                     MapPut(st.attrs, attrS.Name, f.FullName), st.blockTypes, st.blockLabels)

\* case FieldNestedBlockType of bodySchema's loop, with the block type's schema
schemaAddBlockSchema(b, f, st) ==
    IF b.out = "panic" THEN SchemaStatePanic
    ELSE IF b.Type \in DOMAIN st.attrs THEN
        SchemaStateError(schemaErrorf(f.FullName,
            "declaration of block type %q conflicts with attribute declared by %s",
            <<b.Type, st.attrs[b.Type]>>))
    ELSE IF b.Type \in DOMAIN st.blockTypes THEN
        SchemaStateError(schemaErrorf(f.FullName, "declaration of block type %q conflicts with %s",
                                      <<b.Type, st.blockTypes[b.Type]>>))
    ELSE IF b.Type \in DOMAIN st.blockLabels THEN
        SchemaStateError(schemaErrorf(f.FullName,
            "declaration of block type %q conflicts with block label name declared by %s",
            <<b.Type, st.blockLabels[b.Type]>>))
    ELSE SchemaState([st.ret EXCEPT !.Blocks = Append(@, [Type |-> b.Type, LabelNames |-> b.LabelNames])],
                     st.attrs, MapPut(st.blockTypes, b.Type, f.FullName), st.blockLabels)
schemaAddBlockType(f, elem, st) == schemaAddBlockSchema(blockTypeSchema(elem), f, st)

\* case FieldFlattened: the first loop, over nestSchema.Attributes
RECURSIVE schemaMergeAttributes(_, _, _, _)
\* (faulty variant: the merged entry keeps the name but not the required flag)
schemaMergeAttributesOptional(f, nestAttrs, pos, st) ==
    IF st.out # "ok" \/ pos > Len(nestAttrs) THEN st
    ELSE LET attrS == [Name |-> nestAttrs[pos].Name, Required |-> FALSE] IN
         IF attrS.Name \in DOMAIN st.attrs \cup DOMAIN st.blockTypes \cup DOMAIN st.blockLabels THEN
             SchemaStateError(schemaErrorf(f.FullName, "flattened-in attribute %q conflicts", <<attrS.Name>>))
         ELSE schemaMergeAttributes(f, nestAttrs, pos + 1,
                 SchemaState([st.ret EXCEPT !.Attributes = Append(@, attrS)],
                             MapPut(st.attrs, attrS.Name, f.FullName), st.blockTypes, st.blockLabels))
schemaMergeAttributes(f, nestAttrs, pos, st) ==
    IF st.out # "ok" \/ pos > Len(nestAttrs) THEN st
    ELSE LET attrS == nestAttrs[pos] IN
         IF attrS.Name \in DOMAIN st.attrs THEN
             SchemaStateError(schemaErrorf(f.FullName, "flattened-in attribute %q conflicts with %s",
                                           <<attrS.Name, st.attrs[attrS.Name]>>))
         ELSE IF attrS.Name \in DOMAIN st.blockTypes THEN
             SchemaStateError(schemaErrorf(f.FullName,
                 "flattened-in attribute %q conflicts with block type declared by %s",
                 <<attrS.Name, st.blockTypes[attrS.Name]>>))
         ELSE IF attrS.Name \in DOMAIN st.blockLabels THEN
             SchemaStateError(schemaErrorf(f.FullName,
                 "flattened-in attribute %q conflicts with block label name declared by %s",
                 <<attrS.Name, st.blockLabels[attrS.Name]>>))
         ELSE schemaMergeAttributes(f, nestAttrs, pos + 1,
                 SchemaState([st.ret EXCEPT !.Attributes = Append(@, attrS)],
                             MapPut(st.attrs, attrS.Name, f.FullName), st.blockTypes, st.blockLabels))

\* case FieldFlattened: the second loop, over nestSchema.Blocks
RECURSIVE schemaMergeBlocks(_, _, _, _)
schemaMergeBlocks(f, nestBlocks, pos, st) ==
    IF st.out # "ok" \/ pos > Len(nestBlocks) THEN st
    ELSE LET blockS == nestBlocks[pos] IN
         IF blockS.Type \in DOMAIN st.attrs THEN
             SchemaStateError(schemaErrorf(f.FullName,
                 "flattened-in block type %q conflicts with attribute declared by %s",
                 <<blockS.Type, st.attrs[blockS.Type]>>))
         ELSE IF blockS.Type \in DOMAIN st.blockTypes THEN
             SchemaStateError(schemaErrorf(f.FullName, "flattened-in block type %q conflicts with %s",
                                           <<blockS.Type, st.blockTypes[blockS.Type]>>))
         ELSE IF blockS.Type \in DOMAIN st.blockLabels THEN
             SchemaStateError(schemaErrorf(f.FullName,
                 "flattened-in block type %q conflicts with block label name declared by %s",
                 <<blockS.Type, st.blockLabels[blockS.Type]>>))
         ELSE schemaMergeBlocks(f, nestBlocks, pos + 1,
                 SchemaState([st.ret EXCEPT !.Blocks = Append(@, blockS)],
                             st.attrs, MapPut(st.blockTypes, blockS.Type, f.FullName), st.blockLabels))

\* case FieldBlockLabel of bodySchema's loop
schemaAddBlockLabel(f, elem, st) ==
    IF elem.Name \in DOMAIN st.attrs THEN
        SchemaStateError(schemaErrorf(f.FullName, "block label name %q conflicts with attribute declared by %s",
                                      <<elem.Name, st.attrs[elem.Name]>>))
    ELSE IF elem.Name \in DOMAIN st.blockTypes THEN
        SchemaStateError(schemaErrorf(f.FullName, "block label name %q conflicts with %s",
                                      <<elem.Name, st.blockTypes[elem.Name]>>))
    ELSE IF elem.Name \in DOMAIN st.blockLabels THEN
        SchemaStateError(schemaErrorf(f.FullName, "block label name %q conflicts %s",
                                      <<elem.Name, st.blockLabels[elem.Name]>>))
    ELSE SchemaState(st.ret, st.attrs, st.blockTypes, MapPut(st.blockLabels, elem.Name, f.FullName))

\* The position of the first non-synthetic oneof, 0 when there is none.
RECURSIVE firstRealOneof(_, _)
firstRealOneof(oneofs, pos) ==
    IF pos > Len(oneofs) THEN 0
    ELSE IF ~oneofs[pos].IsSynthetic THEN pos
    ELSE firstRealOneof(oneofs, pos + 1)

RECURSIVE bodySchema(_)
RECURSIVE bodySchemaFields(_, _, _)

\* case FieldFlattened of bodySchema's loop, with the nested message's schema
schemaMergeNested(nest, d, f, st) ==
    IF nest.out = "panic" THEN SchemaStatePanic
    ELSE IF nest.out = "error" THEN
        SchemaStateError(schemaErrorf(d.FullName, "invalid message to flatten: %w", <<nest.err>>))
    ELSE schemaMergeBlocks(f, nest.schema.Blocks, 1, schemaMergeAttributes(f, nest.schema.Attributes, 1, st))

\* switch elem := elem.(type)
bodySchemaField(r, d, f, st) ==
    IF r.out = "panic" THEN SchemaStatePanic
    ELSE IF r.out = "error" THEN SchemaStateError(r.err)
    ELSE IF r.elem.k = "FieldAttribute" THEN schemaAddAttribute(f, r.elem, st)
    ELSE IF r.elem.k = "FieldNestedBlockType" THEN schemaAddBlockType(f, r.elem, st)
    ELSE IF r.elem.k = "FieldFlattened" THEN schemaMergeNested(bodySchema(r.elem.Nested), d, f, st)
    ELSE IF r.elem.k = "FieldBlockLabel" THEN schemaAddBlockLabel(f, r.elem, st)
    ELSE st

\* The loop of bodySchema over desc.Fields(), from field pos on.
bodySchemaFields(d, pos, st) ==
    IF st.out # "ok" \/ pos > Len(d.Fields) THEN st
    ELSE bodySchemaFields(d, pos + 1, bodySchemaField(GetFieldElem(d.Fields[pos]), d, d.Fields[pos], st))

bodySchemaOf(st) ==
    IF st.out = "panic" THEN SchemaPanic
    ELSE IF st.out = "error" THEN SchemaError(st.err)
    ELSE SchemaOk(st.ret)

bodySchema(d) ==
    IF firstRealOneof(d.Oneofs, 1) # 0 THEN
        SchemaError(schemaErrorf(d.Oneofs[firstRealOneof(d.Oneofs, 1)].FullName,
            "oneof declarations are not yet supported in messages used for HCL decoding", <<>>))
    ELSE bodySchemaOf(bodySchemaFields(d, 1, SchemaState(EmptySchema, EmptyMap, EmptyMap, EmptyMap)))

(***************************************************************************)
(* Bounds of the descriptor universes.                                     *)
(***************************************************************************)
MaxFields == 2        \* fields of the descriptor under test
MaxNestedFields == 1  \* fields of a message that is flattened into it

\* Sequences over S of length at most n.
SeqsUpTo(S, n) == UNION {[1..k -> S] : k \in 0..n}

FieldNames == <<"f1", "f2", "f3", "f4">>
\* Gives the fields of a descriptor their full names, by position.
Named(fullName, fs) ==
    [FullName |-> fullName,
     Fields   |-> [i \in 1..Len(fs) |-> [fs[i] EXCEPT !.FullName = fullName \o "." \o FieldNames[i]]],
     Oneofs   |-> <<>>]

PlainField(kind, card) == Field("", kind, card, "string", NoDesc, NoAttr, NoBlock, FALSE, NoLabel)
AttrField(name, required, kind, card, type, raw) ==
    [PlainField(kind, card) EXCEPT !.attr = AttrOpts(name, required, type, raw)]
LabelField(name) == [PlainField("string", "single") EXCEPT !.label = LabelOpts(name)]
BlockField(typeName, card, kind, nested) ==
    [PlainField("message", card) EXCEPT !.block = BlockOpts(typeName, kind), !.message = nested]
FlattenField(nested) == [PlainField("message", "single") EXCEPT !.flatten = TRUE, !.message = nested]

\* Two message types used as the body of a nested block.
WithStringAttr    == Named("test.WithStringAttr", <<AttrField("name", TRUE, "string", "single", "", "NOT_RAW")>>)
WithOneBlockLabel == Named("test.WithOneBlockLabel",
                           <<LabelField("name"), AttrField("nickname", FALSE, "string", "single", "", "NOT_RAW")>>)

(***************************************************************************)
(* SpecElem: GetFieldElem over every combination of the four payloads      *)
(* (absent, present but empty, non-empty), field kind and cardinality.     *)
(***************************************************************************)
ElemAttrs  == {NoAttr, [NoAttr EXCEPT !.present = TRUE],
               AttrOpts("a", FALSE, "", "NOT_RAW"), AttrOpts("a", TRUE, "any", "JSON"),
               AttrOpts("a", FALSE, "", "MESSAGEPACK")}
ElemBlocks == {NoBlock, [NoBlock EXCEPT !.present = TRUE], BlockOpts("b", "AUTO"), BlockOpts("b", "LIST")}
ElemLabels == {NoLabel, [NoLabel EXCEPT !.present = TRUE], LabelOpts("l")}
ElemKinds  == {"string", "int32", "bytes", "message"}
ElemShapes == {<<"single", "string">>, <<"list", "string">>, <<"map", "string">>, <<"map", "int32">>}

ElemFields ==
    {Field("test.M.f", kind, shape[1], shape[2], IF kind = "message" THEN WithStringAttr ELSE NoDesc,
           a, b, fl, l) :
        kind \in ElemKinds, shape \in ElemShapes, a \in ElemAttrs, b \in ElemBlocks,
        fl \in BOOLEAN, l \in ElemLabels}

InitElem ==
    /\ pc = "start"
    /\ field \in ElemFields
    /\ desc = NoDesc /\ body = None /\ msg = None
    /\ elemRes = None /\ schemaRes = None /\ decodeRes = None
    /\ valueRes = None /\ typeRes = None /\ again = None /\ builtRes = None /\ mapOrder = "ascending"

CallGetFieldElem ==
    /\ pc = "start"
    /\ elemRes' = GetFieldElem(field)
    /\ pc' = "done"
    /\ UNCHANGED <<field, desc, body, msg, schemaRes, decodeRes, valueRes, typeRes, again, mapOrder, builtRes>>

NextElem == CallGetFieldElem
SpecElem == InitElem /\ [][NextElem]_vars

(***************************************************************************)
(* SpecSchema: bodySchema over descriptors of at most MaxFields fields,    *)
(* each an attribute, a block type, a block label or a Flatten of a        *)
(* message of at most MaxNestedFields such fields, or of a message that    *)
(* itself flattens one (Flatten nested twice).  Attribute "b" is required, *)
(* block type "a" has one label.                                           *)
(***************************************************************************)
SchemaNames == {"a", "b"}
DirectFields ==
    {AttrField(n, n = "b", "string", "single", "", "NOT_RAW") : n \in SchemaNames}
    \cup {LabelField(n) : n \in SchemaNames}
    \cup {BlockField(n, "single", "AUTO", IF n = "a" THEN WithOneBlockLabel ELSE WithStringAttr) :
             n \in SchemaNames}

LeafDescs == {Named("test.Leaf", fs) : fs \in SeqsUpTo(DirectFields, MaxNestedFields)}
MidDescs  == {Named("test.Mid", <<FlattenField(c)>>) :
                 c \in {Named("test.Leaf", fs) : fs \in SeqsUpTo(DirectFields, 1)}}
SchemaFields == DirectFields \cup {FlattenField(c) : c \in LeafDescs \cup MidDescs}
SchemaDescs  == {Named("test.Root", fs) : fs \in SeqsUpTo(SchemaFields, MaxFields)}

InitSchema ==
    /\ pc = "start"
    /\ desc \in SchemaDescs
    /\ field = None /\ body = None /\ msg = None
    /\ elemRes = None /\ schemaRes = None /\ decodeRes = None
    /\ valueRes = None /\ typeRes = None /\ again = None /\ builtRes = None /\ mapOrder = "ascending"

CallBodySchema ==
    /\ pc = "start"
    /\ schemaRes' = bodySchema(desc)
    /\ pc' = "done"
    /\ UNCHANGED <<field, desc, body, msg, elemRes, decodeRes, valueRes, typeRes, again, mapOrder, builtRes>>

NextSchema == CallBodySchema
SpecSchema == InitSchema /\ [][NextSchema]_vars

(***************************************************************************)
(* Claims about GetFieldElem.                                              *)
(***************************************************************************)
HasAttr(f)  == f.attr.present /\ f.attr.Name # ""
HasBlock(f) == f.block.present /\ f.block.TypeName # ""
HasLabel(f) == f.label.present /\ f.label.Name # ""
PayloadCount(f) ==
    (IF HasAttr(f) THEN 1 ELSE 0) + (IF HasBlock(f) THEN 1 ELSE 0)
    + (IF f.flatten THEN 1 ELSE 0) + (IF HasLabel(f) THEN 1 ELSE 0)
VariantOf(f) ==
    IF HasAttr(f) THEN "FieldAttribute"
    ELSE IF HasBlock(f) THEN "FieldNestedBlockType"
    ELSE IF f.flatten THEN "FieldFlattened"
    ELSE "FieldBlockLabel"

\* C7: GetFieldElem returns a schema error, and no element, for every field
\* that carries two or more non-empty payloads, whether the remaining
\* payloads are empty or absent; with exactly one non-empty payload the
\* element it returns is that variant, and with none it returns no element
\* and no error.
C7_TwoPayloadsRejected ==
    pc = "done" =>
        /\ PayloadCount(field) >= 2 => elemRes.out = "error" /\ elemRes.elem = NilElem
        /\ PayloadCount(field) = 1 =>
              /\ elemRes.out # "panic"
              /\ elemRes.out = "ok" => elemRes.elem.k = VariantOf(field)
        /\ PayloadCount(field) = 0 => elemRes.out = "ok" /\ elemRes.elem = NilElem

(***************************************************************************)
(* Claims about bodySchema.  What a descriptor declares is read here from  *)
(* the annotations themselves, with every Flatten field replaced by the    *)
(* fields of its message.                                                  *)
(***************************************************************************)
RECURSIVE InlinedFields(_)
InlinedFields(d) ==
    LET RECURSIVE from(_)
        from(pos) ==
            IF pos > Len(d.Fields) THEN <<>>
            ELSE (IF d.Fields[pos].flatten THEN InlinedFields(d.Fields[pos].message)
                  ELSE <<d.Fields[pos]>>) \o from(pos + 1)
    IN from(1)

DeclaredName(f) ==
    IF HasAttr(f) THEN f.attr.Name ELSE IF HasBlock(f) THEN f.block.TypeName ELSE f.label.Name
DeclaredNames(d) == [i \in 1..Len(InlinedFields(d)) |-> DeclaredName(InlinedFields(d)[i])]
Distinct(names) == \A i, j \in 1..Len(names) : i # j => names[i] # names[j]

LabelsOf(d) == LET ls == SelectSeq(d.Fields, HasLabel) IN [i \in 1..Len(ls) |-> ls[i].label.Name]
ExpectedAttributes(d) ==
    LET as == SelectSeq(InlinedFields(d), HasAttr) IN
    [i \in 1..Len(as) |-> [Name |-> as[i].attr.Name, Required |-> as[i].attr.Required]]
ExpectedBlocks(d) ==
    LET bs == SelectSeq(InlinedFields(d), HasBlock) IN
    [i \in 1..Len(bs) |-> [Type |-> bs[i].block.TypeName, LabelNames |-> LabelsOf(bs[i].message)]]
HasFlatten(d) == \E i \in 1..Len(d.Fields) : d.Fields[i].flatten

SchemaNamesOf(s) ==
    [i \in 1..Len(s.Attributes) |-> s.Attributes[i].Name]
    \o [i \in 1..Len(s.Blocks) |-> s.Blocks[i].Type]

\* C8: when bodySchema(D) succeeds, the attribute names and block type names
\* of the schema together with the BlockLabel names of D's own fields are
\* pairwise distinct; and whenever two declarations of D, made directly or
\* through a Flatten field, share a name, bodySchema(D) returns a schema error.
C8_NamesDistinctOrError ==
    pc = "done" =>
        /\ schemaRes.out = "ok" => Distinct(SchemaNamesOf(schemaRes.schema) \o LabelsOf(desc))
        /\ ~Distinct(DeclaredNames(desc)) => schemaRes.out = "error"

\* C9: for a message with a Flatten field, none of whose declarations
\* (its own and those flattened in, at any depth) share a name, bodySchema
\* succeeds and its attribute list and its block list are the message's own
\* entries with the flattened message's entries spliced in at the Flatten
\* field's position, names, required flags and label names unchanged.
C9_FlattenTransparent ==
    (pc = "done" /\ HasFlatten(desc) /\ Distinct(DeclaredNames(desc))) =>
        /\ schemaRes.out = "ok"
        /\ schemaRes.schema.Attributes = ExpectedAttributes(desc)
        /\ schemaRes.schema.Blocks = ExpectedBlocks(desc)

\* A message that flattens, ahead of an attribute of its own, a message that
\* itself flattens a block type with a label: the schema holds both entries.
C9_Witness ==
    /\ pc = "done" /\ schemaRes.out = "ok"
    /\ Len(desc.Fields) = 2 /\ desc.Fields[1].flatten /\ HasAttr(desc.Fields[2])
    /\ HasFlatten(desc.Fields[1].message)
    /\ Len(schemaRes.schema.Attributes) = 1 /\ Len(schemaRes.schema.Blocks) = 1
    /\ schemaRes.schema.Blocks[1].LabelNames = <<"name">>
    /\ schemaRes.schema.Attributes[1].Required

(***************************************************************************)
(* Numbers.  A cty number is a big.Float: here a sign, a magnitude of five *)
(* limbs in base 2^16 (least significant first, so every value below 2^80  *)
(* is exact), a flag for a fractional part of one half, and the two        *)
(* infinities.                                                             *)
(***************************************************************************)
Base == 2^16
NoLimbs == <<0, 0, 0, 0, 0>>

Num(neg, mag, frac) == [inf |-> "no", neg |-> neg, mag |-> mag, frac |-> frac]
PositiveInfinity == [inf |-> "yes", neg |-> FALSE, mag |-> NoLimbs, frac |-> FALSE]
NegativeInfinity == [inf |-> "yes", neg |-> TRUE, mag |-> NoLimbs, frac |-> FALSE]
NumZero == Num(FALSE, NoLimbs, FALSE)

\* The magnitude of a small natural number.
Limbs(n) == <<n % Base, n \div Base, 0, 0, 0>>
\* 2^k as a magnitude, k < 80.
Pow2(k) == [i \in 1..5 |-> IF i = (k \div 16) + 1 THEN 2^(k % 16) ELSE 0]

\* -1, 0 or 1 as magnitude a is below, equal to or above magnitude b.
RECURSIVE MagCmpFrom(_, _, _)
MagCmpFrom(a, b, i) ==
    IF i = 0 THEN 0
    ELSE IF a[i] < b[i] THEN -1
    ELSE IF a[i] > b[i] THEN 1
    ELSE MagCmpFrom(a, b, i - 1)
MagCmp(a, b) == MagCmpFrom(a, b, 5)
MagIsZero(a) == a = NoLimbs

\* a - 1 for a magnitude a > 0, and a + 1.
RECURSIVE MagDecFrom(_, _)
MagDecFrom(a, i) ==
    IF a[i] > 0 THEN [a EXCEPT ![i] = @ - 1]
    ELSE MagDecFrom([a EXCEPT ![i] = Base - 1], i + 1)
MagDec(a) == MagDecFrom(a, 1)
RECURSIVE MagIncFrom(_, _)
MagIncFrom(a, i) ==
    IF i > 5 THEN a
    ELSE IF a[i] < Base - 1 THEN [a EXCEPT ![i] = @ + 1]
    ELSE MagIncFrom([a EXCEPT ![i] = 0], i + 1)
MagInc(a) == MagIncFrom(a, 1)

\* The low `limbs` limbs of a magnitude: its value modulo 2^(16 * limbs).
MagLow(a, limbs) == [i \in 1..5 |-> IF i <= limbs THEN a[i] ELSE 0]
\* 2^(16 * limbs) - a for a magnitude 0 < a < 2^(16 * limbs).
MagComplement(a, limbs) ==
    MagLow(MagInc([i \in 1..5 |-> IF i <= limbs THEN Base - 1 - a[i] ELSE 0]), limbs)

\* big.Int.Cmp on integers: -1, 0 or 1.
IntCmp(x, y) ==
    IF x.neg /\ ~y.neg THEN (IF MagIsZero(x.mag) /\ MagIsZero(y.mag) THEN 0 ELSE -1)
    ELSE IF ~x.neg /\ y.neg THEN (IF MagIsZero(x.mag) /\ MagIsZero(y.mag) THEN 0 ELSE 1)
    ELSE IF x.neg THEN MagCmp(y.mag, x.mag)
    ELSE MagCmp(x.mag, y.mag)

\* A fixed-width two's complement pattern of `limbs` limbs read as a signed
\* integer (int32(..) with 2 limbs, int64 with 4) and as an unsigned one.
SignedOfBits(bits, limbs) ==
    IF bits[limbs] >= Base \div 2
    THEN Num(TRUE, MagComplement(bits, limbs), FALSE)
    ELSE Num(FALSE, bits, FALSE)
UnsignedOfBits(bits) == Num(FALSE, bits, FALSE)
\* The pattern of -a, modulo 2^(16 * limbs).
NegateBits(a, limbs) == IF MagIsZero(MagLow(a, limbs)) THEN NoLimbs ELSE MagComplement(MagLow(a, limbs), limbs)

\* big.Int.Int64 and big.Int.Uint64: the low 64 bits of the magnitude,
\* negated for a negative integer in Int64; the sign is ignored by Uint64.
BigIntInt64Bits(bi) == IF bi.neg THEN NegateBits(bi.mag, 4) ELSE MagLow(bi.mag, 4)
BigIntUint64Bits(bi) == MagLow(bi.mag, 4)

(***************************************************************************)
(* cty types and values.  A type is a tag with its element types (one for  *)
(* list and map, one per element for a tuple, one named entry per          *)
(* attribute, in name order, for an object).  A value is its type, whether *)
(* it is known, null or unknown, and a payload: a string, a number, a      *)
(* boolean, the element values, or the entries (k, v) in key order.  A set *)
(* keeps its distinct elements in the order of its set rules.              *)
(***************************************************************************)
TyString == [t |-> "string", e |-> <<>>]
TyNumber == [t |-> "number", e |-> <<>>]
TyBool   == [t |-> "bool", e |-> <<>>]
DynamicPseudoType == [t |-> "dynamic", e |-> <<>>]
NilType  == [t |-> "nil", e |-> <<>>]
TyList(ety)  == [t |-> "list", e |-> <<ety>>]
TyMap(ety)   == [t |-> "map", e |-> <<ety>>]
TySet(ety)   == [t |-> "set", e |-> <<ety>>]
TyTuple(etys) == [t |-> "tuple", e |-> etys]
\* atys: the attributes as a sequence of TyAttr entries, in name order
TyObject(atys) == [t |-> "object", e |-> atys]
TyAttr(name, ty) == [t |-> name, e |-> <<ty>>]
AttrName(entry) == entry.t
AttrType(entry) == entry.e[1]

IsPrimitive(ty) == ty.t \in {"string", "number", "bool"}
IsSequenceTy(ty) == ty.t \in {"list", "tuple"}
IsMappingTy(ty) == ty.t \in {"map", "object"}

RECURSIVE HasDynamicTypes(_)
HasDynamicTypes(ty) ==
    IF ty.t = "dynamic" THEN TRUE
    ELSE IF ty.t \in {"list", "map", "set"} THEN HasDynamicTypes(ty.e[1])
    ELSE IF ty.t = "tuple" THEN \E i \in 1..Len(ty.e) : HasDynamicTypes(ty.e[i])
    ELSE IF ty.t = "object" THEN \E i \in 1..Len(ty.e) : HasDynamicTypes(AttrType(ty.e[i]))
    ELSE FALSE

\* The payload a null or unknown value of a type carries (never read).
NoPayload(ty) ==
    IF ty.t = "string" THEN ""
    ELSE IF ty.t = "number" THEN NumZero
    ELSE IF ty.t = "bool" THEN FALSE
    ELSE <<>>

Known(ty, v)   == [st |-> "known", ty |-> ty, v |-> v]
NullVal(ty)    == [st |-> "null", ty |-> ty, v |-> NoPayload(ty)]
UnknownVal(ty) == [st |-> "unknown", ty |-> ty, v |-> NoPayload(ty)]
DynamicVal     == UnknownVal(DynamicPseudoType)
StringVal(s)   == Known(TyString, s)
NumberVal(n)   == Known(TyNumber, n)
BoolVal(b)     == Known(TyBool, b)
TupleVal(elems) == Known(TyTuple([i \in 1..Len(elems) |-> elems[i].ty]), elems)
ListVal(elems)  == Known(TyList(elems[1].ty), elems)
ListValEmpty(ety) == Known(TyList(ety), <<>>)
Entry(k, v) == [k |-> k, v |-> v]
\* entries: the attributes as a sequence of Entry in name order
ObjectVal(entries) ==
    Known(TyObject([i \in 1..Len(entries) |-> TyAttr(entries[i].k, entries[i].v.ty)]), entries)
MapVal(entries) == Known(TyMap(entries[1].v.ty), entries)
\* ListVal and SetVal panic unless all the elements have the same type.
SameTypes(elems) == \A i \in 1..Len(elems) : elems[i].ty = elems[1].ty
\* The elements of a set value: each distinct element once.
RECURSIVE Distinguish(_)
Distinguish(elems) ==
    IF elems = <<>> THEN <<>>
    ELSE LET rest == Distinguish(Tail(elems)) IN
         IF \E i \in 1..Len(rest) : rest[i] = Head(elems) THEN rest ELSE <<Head(elems)>> \o rest
\* The strings the model's inputs use, in lexical order: a set of strings
\* keeps its elements in this order (cty's set rules order known strings
\* lexically); the elements of other types stay in their first-seen order.
StringOrder == <<"", "-1", "1", "a", "b", "n", "x", "y">>
AreOrderedStrings(elems) ==
    \A i \in 1..Len(elems) :
        /\ elems[i].st = "known" /\ elems[i].ty.t = "string"
        /\ \E k \in 1..Len(StringOrder) : StringOrder[k] = elems[i].v
StringsInSetOrder(elems) ==
    LET Present(str) == \E i \in 1..Len(elems) : elems[i].v = str
        strs == SelectSeq(StringOrder, Present) IN
    [i \in 1..Len(strs) |-> [st |-> "known", ty |-> elems[1].ty, v |-> strs[i]]]
SetElements(elems) ==
    IF elems # <<>> /\ AreOrderedStrings(elems) THEN StringsInSetOrder(elems) ELSE Distinguish(elems)
SetVal(elems) == Known(TySet(elems[1].ty), SetElements(elems))
SetValEmpty(ety) == Known(TySet(ety), <<>>)

\* The names the model's descriptors use, in lexical order: the order in
\* which the attributes of an object type or value are kept.
NameOrder == <<"a", "b", "breed", "l", "name", "nickname", "num", "nums", "raw", "species">>
\* cty.Object(atys) and cty.ObjectVal(attrs) of a Go map
ObjectOfMap(atys) ==
    LET In(n) == n \in DOMAIN atys
        names == SelectSeq(NameOrder, In) IN
    TyObject([i \in 1..Len(names) |-> TyAttr(names[i], atys[names[i]])])
ObjectValOfMap(attrs) ==
    LET In(n) == n \in DOMAIN attrs
        names == SelectSeq(NameOrder, In) IN
    ObjectVal([i \in 1..Len(names) |-> Entry(names[i], attrs[names[i]])])

IsNull(val)  == val.st = "null"
IsKnown(val) == val.st # "unknown"

\* Whether a value, or any value nested in it, is unknown.
RECURSIVE IsWhollyKnown(_)
IsWhollyKnown(val) ==
    IF val.st = "unknown" THEN FALSE
    ELSE IF val.st = "null" THEN TRUE
    ELSE IF val.ty.t \in {"list", "set", "tuple"} THEN \A i \in 1..Len(val.v) : IsWhollyKnown(val.v[i])
    ELSE IF IsMappingTy(val.ty) THEN \A i \in 1..Len(val.v) : IsWhollyKnown(val.v[i].v)
    ELSE TRUE

(***************************************************************************)
(* Decimal text of numbers (big.Float.Text('f', -1)) and its parser        *)
(* (cty.ParseNumberVal), over the literals the model's inputs use.         *)
(***************************************************************************)
NumberLiterals ==
    << Entry("0", NumZero),
       Entry("1", Num(FALSE, Limbs(1), FALSE)),
       Entry("-1", Num(TRUE, Limbs(1), FALSE)),
       Entry("1.5", Num(FALSE, Limbs(1), TRUE)),
       Entry("-0.5", Num(TRUE, Limbs(0), TRUE)),
       Entry("2147483647", Num(FALSE, MagDec(Pow2(31)), FALSE)),
       Entry("2147483648", Num(FALSE, Pow2(31), FALSE)),
       Entry("-2147483648", Num(TRUE, Pow2(31), FALSE)),
       Entry("-2147483649", Num(TRUE, MagInc(Pow2(31)), FALSE)),
       Entry("4294967295", Num(FALSE, MagDec(Pow2(32)), FALSE)),
       Entry("4294967296", Num(FALSE, Pow2(32), FALSE)),
       Entry("9223372036854775807", Num(FALSE, MagDec(Pow2(63)), FALSE)),
       Entry("9223372036854775808", Num(FALSE, Pow2(63), FALSE)),
       Entry("-9223372036854775808", Num(TRUE, Pow2(63), FALSE)),
       Entry("-9223372036854775809", Num(TRUE, MagInc(Pow2(63)), FALSE)),
       Entry("18446744073709551615", Num(FALSE, MagDec(Pow2(64)), FALSE)),
       Entry("18446744073709551616", Num(FALSE, Pow2(64), FALSE)) >>

NumberText(n) ==
    IF n.inf = "yes" THEN (IF n.neg THEN "-Inf" ELSE "+Inf")
    ELSE IF \E i \in 1..Len(NumberLiterals) : NumberLiterals[i].v = n
         THEN NumberLiterals[CHOOSE i \in 1..Len(NumberLiterals) : NumberLiterals[i].v = n].k
    ELSE "(number)"
\* [ok, n]: the number a decimal string denotes, ok = FALSE when it is none
ParseNumberVal(str) ==
    IF \E i \in 1..Len(NumberLiterals) : NumberLiterals[i].k = str
    THEN [ok |-> TRUE, n |-> NumberLiterals[CHOOSE i \in 1..Len(NumberLiterals) : NumberLiterals[i].k = str].v]
    ELSE [ok |-> FALSE, n |-> NumZero]

(***************************************************************************)
(* convert.Convert(in, out): the value converted to a type constraint, or  *)
(* an error.  Converting to the dynamic pseudo-type, or to the value's own *)
(* type, returns the value as it is; a null or unknown value converts to   *)
(* the null or unknown value of the target type whenever the types do.     *)
(***************************************************************************)
ConvertOk(val)  == [ok |-> TRUE, val |-> val, err |-> ""]
ConvertErr(err) == [ok |-> FALSE, val |-> DynamicVal, err |-> err]
Retyped(in, out) == [st |-> in.st, ty |-> out, v |-> NoPayload(out)]

ConvertPrimitive(in, out) ==
    IF in.ty.t = "string" /\ out.t = "number" THEN
        IF in.st # "known" THEN ConvertOk(Retyped(in, out))
        ELSE IF ParseNumberVal(in.v).ok THEN ConvertOk(NumberVal(ParseNumberVal(in.v).n))
        ELSE ConvertErr("a number is required")
    ELSE IF in.ty.t = "string" /\ out.t = "bool" THEN
        IF in.st # "known" THEN ConvertOk(Retyped(in, out))
        ELSE IF in.v \in {"true", "false"} THEN ConvertOk(BoolVal(in.v = "true"))
        ELSE ConvertErr("a bool is required")
    ELSE IF in.ty.t = "number" /\ out.t = "string" THEN
        IF in.st # "known" THEN ConvertOk(Retyped(in, out))
        ELSE ConvertOk(StringVal(NumberText(in.v)))
    ELSE IF in.ty.t = "bool" /\ out.t = "string" THEN
        IF in.st # "known" THEN ConvertOk(Retyped(in, out))
        ELSE ConvertOk(StringVal(IF in.v THEN "true" ELSE "false"))
    ELSE ConvertErr(out.t \o " required")

RECURSIVE Convert(_, _)
Convert(in, out) ==
    IF out.t = "dynamic" \/ in.ty = out THEN ConvertOk(in)
    ELSE IF in.ty.t = "dynamic" THEN ConvertOk(Retyped(in, out))
    ELSE IF IsPrimitive(in.ty) /\ IsPrimitive(out) THEN ConvertPrimitive(in, out)
    ELSE IF out.t = "list" /\ in.ty.t \in {"list", "set", "tuple"} THEN
        IF in.st # "known" THEN ConvertOk(Retyped(in, out))
        ELSE LET rs == [i \in 1..Len(in.v) |-> Convert(in.v[i], out.e[1])] IN
             IF \A i \in 1..Len(rs) : rs[i].ok
             THEN ConvertOk(Known(out, [i \in 1..Len(rs) |-> rs[i].val]))
             ELSE ConvertErr(rs[CHOOSE i \in 1..Len(rs) : ~rs[i].ok].err)
    ELSE IF out.t = "set" /\ in.ty.t \in {"set", "list", "tuple"} THEN
        IF in.st # "known" THEN ConvertOk(Retyped(in, out))
        ELSE LET rs == [i \in 1..Len(in.v) |-> Convert(in.v[i], out.e[1])] IN
             IF \A i \in 1..Len(rs) : rs[i].ok
             THEN ConvertOk(Known(out, SetElements([i \in 1..Len(rs) |-> rs[i].val])))
             ELSE ConvertErr(rs[CHOOSE i \in 1..Len(rs) : ~rs[i].ok].err)
    ELSE IF out.t = "tuple" /\ in.ty.t = "tuple" /\ Len(in.ty.e) = Len(out.e) THEN
        IF in.st # "known" THEN ConvertOk(Retyped(in, out))
        ELSE LET rs == [i \in 1..Len(in.v) |-> Convert(in.v[i], out.e[i])] IN
             IF \A i \in 1..Len(rs) : rs[i].ok
             THEN ConvertOk(TupleVal([i \in 1..Len(rs) |-> rs[i].val]))
             ELSE ConvertErr(rs[CHOOSE i \in 1..Len(rs) : ~rs[i].ok].err)
    ELSE IF out.t = "map" /\ IsMappingTy(in.ty) THEN
        IF in.st # "known" THEN ConvertOk(Retyped(in, out))
        ELSE LET rs == [i \in 1..Len(in.v) |-> Convert(in.v[i].v, out.e[1])] IN
             IF \A i \in 1..Len(rs) : rs[i].ok
             THEN ConvertOk(Known(out, [i \in 1..Len(rs) |-> Entry(in.v[i].k, rs[i].val)]))
             ELSE ConvertErr(rs[CHOOSE i \in 1..Len(rs) : ~rs[i].ok].err)
    ELSE IF /\ out.t = "object" /\ in.ty.t = "object" /\ Len(in.ty.e) = Len(out.e)
            /\ \A i \in 1..Len(out.e) : AttrName(in.ty.e[i]) = AttrName(out.e[i]) THEN
        IF in.st # "known" THEN ConvertOk(Retyped(in, out))
        ELSE LET rs == [i \in 1..Len(in.v) |-> Convert(in.v[i].v, AttrType(out.e[i]))] IN
             IF \A i \in 1..Len(rs) : rs[i].ok
             THEN ConvertOk(ObjectVal([i \in 1..Len(rs) |-> Entry(in.v[i].k, rs[i].val)]))
             ELSE ConvertErr(rs[CHOOSE i \in 1..Len(rs) : ~rs[i].ok].err)
    ELSE ConvertErr(out.t \o " required")

\* Type.TestConformance: whether a type conforms to a type constraint.
RECURSIVE Conforms(_, _)
Conforms(ty, want) ==
    IF want.t = "dynamic" THEN TRUE
    ELSE IF ty.t # want.t \/ Len(ty.e) # Len(want.e) THEN FALSE
    ELSE IF ty.t \in {"list", "map", "set"} THEN Conforms(ty.e[1], want.e[1])
    ELSE IF ty.t = "tuple" THEN \A i \in 1..Len(ty.e) : Conforms(ty.e[i], want.e[i])
    ELSE IF ty.t = "object" THEN
        \A i \in 1..Len(ty.e) :
            AttrName(ty.e[i]) = AttrName(want.e[i]) /\ Conforms(AttrType(ty.e[i]), AttrType(want.e[i]))
    ELSE TRUE

(***************************************************************************)
(* Diagnostics.  Subject stands for the source range of a diagnostic: the  *)
(* name of the attribute or block type whose source it points at.          *)
(***************************************************************************)
Diagnostic(summary, detail, subject) ==
    [Severity |-> "error", Summary |-> summary, Detail |-> detail, Subject |-> subject, Decl |-> ""]
unsuitableValueSummary == "Unsuitable attribute value"
\* schemaError.Diagnostic: no subject; the detail names the declaration
schemaErrorDiagnostic(err) ==
    [Diagnostic("Invalid configuration schema", err.Err.format, "") EXCEPT !.Decl = err.Decl]
HasErrors(diags) == \E i \in 1..Len(diags) : diags[i].Severity = "error"

(***************************************************************************)
(* Type constraints of attributes.                                         *)
(***************************************************************************)
IntegerKinds == {"int32", "sint32", "sfixed32", "int64", "sint64", "sfixed64",
                 "uint32", "fixed32", "uint64", "fixed64"}
NumberKinds == IntegerKinds \cup {"float", "double"}

autoTypeConstraintForFieldElement(f) ==
    IF f.kind = "bool" THEN TyBool
    ELSE IF f.kind = "enum" THEN TyString
    ELSE IF f.kind \in NumberKinds THEN TyNumber
    ELSE IF f.kind = "string" THEN TyString
    ELSE NilType

autoTypeConstraintForField(f) ==
    LET ety == autoTypeConstraintForFieldElement(f) IN
    IF ety = NilType THEN ety
    ELSE IF IsList(f) THEN (IF HasDynamicTypes(ety) THEN DynamicPseudoType ELSE TyList(ety))
    ELSE IF IsMap(f) THEN (IF HasDynamicTypes(ety) THEN DynamicPseudoType ELSE TyMap(ety))
    ELSE ety

TypeOk(ty) == [ok |-> TRUE, ty |-> ty, diags |-> <<>>]
TypeErr(diag) == [ok |-> FALSE, ty |-> DynamicPseudoType, diags |-> <<diag>>]

autoTypeConstraint(fa) ==
    IF fa.RawMode # "NOT_RAW" THEN
        TypeErr(schemaErrorDiagnostic(schemaErrorf(fa.TargetField.FullName,
            "must set explicit HCL type constraint for this raw-mode attribute", <<>>)))
    ELSE IF autoTypeConstraintForField(fa.TargetField) = NilType THEN
        TypeErr(schemaErrorDiagnostic(schemaErrorf(fa.TargetField.FullName,
            "can't infer HCL type constraint for this field; must specify (hcl.attr).type option explicitly", <<>>)))
    ELSE TypeOk(autoTypeConstraintForField(fa.TargetField))

\* hclsyntax.ParseExpression followed by typeexpr.TypeConstraint, over the
\* type expressions the model's descriptors use; any other text is invalid.
TypeExpressions ==
    << Entry("string", TyString), Entry("number", TyNumber), Entry("bool", TyBool),
       Entry("any", DynamicPseudoType),
       Entry("list(string)", TyList(TyString)), Entry("list(number)", TyList(TyNumber)),
       Entry("map(string)", TyMap(TyString)), Entry("map(number)", TyMap(TyNumber)),
       Entry("set(string)", TySet(TyString)),
       Entry("tuple([string, number])", TyTuple(<<TyString, TyNumber>>)) >>

TypeConstraint(fa) ==
    IF fa.TypeExprString = "" THEN autoTypeConstraint(fa)
    ELSE IF \E i \in 1..Len(TypeExpressions) : TypeExpressions[i].k = fa.TypeExprString
         THEN TypeOk(TypeExpressions[CHOOSE i \in 1..Len(TypeExpressions) :
                                         TypeExpressions[i].k = fa.TypeExprString].v)
    ELSE TypeErr(Diagnostic("Invalid type specification", "", fa.Name))

physicalConstraintForFieldKindSingle(f) ==
    IF f.kind = "bool" THEN [ok |-> TRUE, ty |-> TyBool, err |-> NoError]
    ELSE IF f.kind = "enum" THEN [ok |-> TRUE, ty |-> TyString, err |-> NoError]
    ELSE IF f.kind \in NumberKinds THEN [ok |-> TRUE, ty |-> TyNumber, err |-> NoError]
    ELSE IF f.kind = "string" THEN [ok |-> TRUE, ty |-> TyString, err |-> NoError]
    ELSE IF f.kind = "message" THEN
        [ok |-> FALSE, ty |-> DynamicPseudoType,
         err |-> schemaErrorf(f.FullName, "cannot decode a HCL value into a message-typed field", <<>>)]
    ELSE IF f.kind = "bytes" THEN [ok |-> TRUE, ty |-> DynamicPseudoType, err |-> NoError]
    ELSE [ok |-> FALSE, ty |-> DynamicPseudoType,
          err |-> schemaErrorf(f.FullName, "cannot decode a HCL value into a %s field", <<f.kind>>)]

\* valuePhysicalConstraintForFieldKind without its set case
valuePhysicalConstraintForFieldKindNoSet(ty, f) ==
    LET single == physicalConstraintForFieldKindSingle(f) IN
    IF IsList(f) THEN
        IF ~single.ok THEN single
        ELSE IF ty.t = "tuple" THEN
            [ok |-> TRUE, ty |-> TyTuple([i \in 1..Len(ty.e) |-> single.ty]), err |-> NoError]
        ELSE IF ty.t = "list" THEN [ok |-> TRUE, ty |-> TyList(single.ty), err |-> NoError]
        ELSE [ok |-> FALSE, ty |-> DynamicPseudoType,
              err |-> schemaErrorf(f.FullName, "can't populate list field from HCL %s", <<ty.t>>)]
    ELSE IF IsMap(f) THEN
        IF ~single.ok THEN single
        ELSE IF ty.t = "object" THEN
            [ok |-> TRUE, ty |-> TyObject([i \in 1..Len(ty.e) |-> TyAttr(AttrName(ty.e[i]), single.ty)]),
             err |-> NoError]
        ELSE IF ty.t = "map" THEN [ok |-> TRUE, ty |-> TyMap(single.ty), err |-> NoError]
        ELSE [ok |-> FALSE, ty |-> DynamicPseudoType,
              err |-> schemaErrorf(f.FullName, "can't populate map field from HCL %s", <<ty.t>>)]
    ELSE single
valuePhysicalConstraintForFieldKind(ty, f) ==
    LET single == physicalConstraintForFieldKindSingle(f) IN
    IF IsList(f) THEN
        IF ~single.ok THEN single
        ELSE IF ty.t = "tuple" THEN
            [ok |-> TRUE, ty |-> TyTuple([i \in 1..Len(ty.e) |-> single.ty]), err |-> NoError]
        ELSE IF ty.t \in {"list", "set"} THEN [ok |-> TRUE, ty |-> TyList(single.ty), err |-> NoError]
        ELSE [ok |-> FALSE, ty |-> DynamicPseudoType,
              err |-> schemaErrorf(f.FullName, "can't populate list field from HCL %s", <<ty.t>>)]
    ELSE IF IsMap(f) THEN
        IF ~single.ok THEN single
        ELSE IF ty.t = "object" THEN
            [ok |-> TRUE, ty |-> TyObject([i \in 1..Len(ty.e) |-> TyAttr(AttrName(ty.e[i]), single.ty)]),
             err |-> NoError]
        ELSE IF ty.t = "map" THEN [ok |-> TRUE, ty |-> TyMap(single.ty), err |-> NoError]
        ELSE [ok |-> FALSE, ty |-> DynamicPseudoType,
              err |-> schemaErrorf(f.FullName, "can't populate map field from HCL %s", <<ty.t>>)]
    ELSE single

(***************************************************************************)
(* The raw encodings of values: ctyjson and ctymsgpack Marshal/Unmarshal.  *)
(* A document is a tree of nodes; the bytes of a field are a document or   *)
(* empty.  A value marshalled against the dynamic pseudo-type is wrapped   *)
(* together with its type.                                                 *)
(***************************************************************************)
JNull      == [j |-> "null", v |-> <<>>]
JStr(str)  == [j |-> "string", v |-> str]
JNumber(text) == [j |-> "number", v |-> text]
JBool(b)   == [j |-> "bool", v |-> b]
JArr(elems) == [j |-> "array", v |-> elems]
JObj(entries) == [j |-> "object", v |-> entries]
EmptyBytes == [j |-> "empty", v |-> <<>>]

RECURSIVE MarshalType(_)
MarshalType(ty) ==
    IF ty.t \in {"list", "map"} THEN JArr(<<JStr(ty.t), MarshalType(ty.e[1])>>)
    ELSE IF ty.t = "tuple" THEN JArr(<<JStr("tuple"), JArr([i \in 1..Len(ty.e) |-> MarshalType(ty.e[i])])>>)
    ELSE IF ty.t = "object" THEN
        JArr(<<JStr("object"),
               JObj([i \in 1..Len(ty.e) |-> Entry(AttrName(ty.e[i]), MarshalType(AttrType(ty.e[i])))])>>)
    ELSE JStr(ty.t)

RECURSIVE UnmarshalType(_)
UnmarshalType(node) ==
    IF node.j = "string" THEN
        IF node.v = "string" THEN [ok |-> TRUE, ty |-> TyString]
        ELSE IF node.v = "number" THEN [ok |-> TRUE, ty |-> TyNumber]
        ELSE IF node.v = "bool" THEN [ok |-> TRUE, ty |-> TyBool]
        ELSE IF node.v = "dynamic" THEN [ok |-> TRUE, ty |-> DynamicPseudoType]
        ELSE [ok |-> FALSE, ty |-> NilType]
    ELSE IF node.j = "array" /\ Len(node.v) = 2 /\ node.v[1].j = "string" THEN
        IF node.v[1].v \in {"list", "map"} THEN
            LET e == UnmarshalType(node.v[2]) IN
            IF e.ok THEN [ok |-> TRUE, ty |-> [t |-> node.v[1].v, e |-> <<e.ty>>]]
            ELSE [ok |-> FALSE, ty |-> NilType]
        ELSE IF node.v[1].v = "tuple" /\ node.v[2].j = "array" THEN
            LET es == [i \in 1..Len(node.v[2].v) |-> UnmarshalType(node.v[2].v[i])] IN
            IF \A i \in 1..Len(es) : es[i].ok
            THEN [ok |-> TRUE, ty |-> TyTuple([i \in 1..Len(es) |-> es[i].ty])]
            ELSE [ok |-> FALSE, ty |-> NilType]
        ELSE IF node.v[1].v = "object" /\ node.v[2].j = "object" THEN
            LET es == [i \in 1..Len(node.v[2].v) |-> UnmarshalType(node.v[2].v[i].v)] IN
            IF \A i \in 1..Len(es) : es[i].ok
            THEN [ok |-> TRUE, ty |-> TyObject([i \in 1..Len(es) |-> TyAttr(node.v[2].v[i].k, es[i].ty)])]
            ELSE [ok |-> FALSE, ty |-> NilType]
        ELSE [ok |-> FALSE, ty |-> NilType]
    ELSE [ok |-> FALSE, ty |-> NilType]

MarshalOk(node)  == [ok |-> TRUE, bytes |-> node, err |-> ""]
MarshalErr(err)  == [ok |-> FALSE, bytes |-> EmptyBytes, err |-> err]

\* marshal(val, t) of cty/json and cty/msgpack: t is the type constraint the
\* reader will use.  MessagePack has an encoding for unknown values and for
\* the infinities, JSON has neither; MessagePack wraps a dynamically typed
\* value in an array [type, value], JSON in an object {"value", "type"}.
JUnknown == [j |-> "unknown", v |-> <<>>]
RECURSIVE rawMarshalValue(_, _, _)
rawMarshalValue(val, ty, mode) ==
    IF ty.t = "dynamic" /\ val.ty.t # "dynamic" THEN
        LET inner == rawMarshalValue(val, val.ty, mode) IN
        IF ~inner.ok THEN inner
        ELSE IF mode = "JSON"
        THEN MarshalOk(JObj(<<Entry("value", inner.bytes), Entry("type", MarshalType(val.ty))>>))
        ELSE MarshalOk(JArr(<<MarshalType(val.ty), inner.bytes>>))
    ELSE IF mode = "JSON" /\ val.st = "null" THEN MarshalOk(JNull)
    ELSE IF val.st = "unknown" THEN
        (IF mode = "JSON" THEN MarshalErr("value is not known") ELSE MarshalOk(JUnknown))
    ELSE IF val.st = "null" THEN MarshalOk(JNull)
    ELSE IF ty.t = "string" THEN MarshalOk(JStr(val.v))
    ELSE IF ty.t = "number" THEN
        IF mode = "JSON" /\ val.v.inf = "yes" THEN MarshalErr("cannot serialize infinity as JSON")
        ELSE MarshalOk(JNumber(NumberText(val.v)))
    ELSE IF ty.t = "bool" THEN MarshalOk(JBool(val.v))
    ELSE IF IsSequenceTy(ty) THEN
        LET rs == [i \in 1..Len(val.v) |->
                      rawMarshalValue(val.v[i], IF ty.t = "list" THEN ty.e[1] ELSE ty.e[i], mode)] IN
        IF \A i \in 1..Len(rs) : rs[i].ok THEN MarshalOk(JArr([i \in 1..Len(rs) |-> rs[i].bytes]))
        ELSE MarshalErr(rs[CHOOSE i \in 1..Len(rs) : ~rs[i].ok].err)
    ELSE IF IsMappingTy(ty) THEN
        LET rs == [i \in 1..Len(val.v) |->
                      rawMarshalValue(val.v[i].v, IF ty.t = "map" THEN ty.e[1] ELSE AttrType(ty.e[i]), mode)] IN
        IF \A i \in 1..Len(rs) : rs[i].ok
        THEN MarshalOk(JObj([i \in 1..Len(rs) |-> Entry(val.v[i].k, rs[i].bytes)]))
        ELSE MarshalErr(rs[CHOOSE i \in 1..Len(rs) : ~rs[i].ok].err)
    ELSE MarshalErr("unsupported type")

rawMarshal(val, ty, mode) ==
    IF ~Conforms(val.ty, ty) THEN MarshalErr("value does not conform to the type constraint")
    ELSE rawMarshalValue(val, ty, mode)
\* (faulty variant: the value is written without the type it was given under
\* the dynamic pseudo-type)
jsonMarshalUntyped(val, ty) == rawMarshalValue(val, val.ty, "JSON")
jsonMarshal(val, ty)    == rawMarshal(val, ty, "JSON")
msgpackMarshal(val, ty) == rawMarshal(val, ty, "MESSAGEPACK")

RawNumber(text, mode) ==
    IF mode = "MESSAGEPACK" /\ text = "+Inf" THEN [ok |-> TRUE, n |-> PositiveInfinity]
    ELSE IF mode = "MESSAGEPACK" /\ text = "-Inf" THEN [ok |-> TRUE, n |-> NegativeInfinity]
    ELSE ParseNumberVal(text)

RECURSIVE rawUnmarshal(_, _, _)
rawUnmarshal(node, ty, mode) ==
    IF node.j = "null" THEN ConvertOk(NullVal(ty))
    ELSE IF node.j = "unknown" THEN ConvertOk(UnknownVal(ty))
    ELSE IF ty.t = "dynamic" THEN
        IF /\ mode = "JSON" /\ node.j = "object" /\ Len(node.v) = 2
           /\ node.v[1].k = "value" /\ node.v[2].k = "type" THEN
            LET t == UnmarshalType(node.v[2].v) IN
            IF t.ok THEN rawUnmarshal(node.v[1].v, t.ty, mode) ELSE ConvertErr("invalid type")
        ELSE IF mode = "MESSAGEPACK" /\ node.j = "array" /\ Len(node.v) = 2 THEN
            LET t == UnmarshalType(node.v[1]) IN
            IF t.ok THEN rawUnmarshal(node.v[2], t.ty, mode) ELSE ConvertErr("invalid type")
        ELSE ConvertErr("dynamic value must carry its type")
    ELSE IF ty.t = "string" THEN
        IF node.j = "string" THEN ConvertOk(StringVal(node.v)) ELSE ConvertErr("string is required")
    ELSE IF ty.t = "number" THEN
        IF node.j = "number" /\ RawNumber(node.v, mode).ok THEN ConvertOk(NumberVal(RawNumber(node.v, mode).n))
        ELSE ConvertErr("number is required")
    ELSE IF ty.t = "bool" THEN
        IF node.j = "bool" THEN ConvertOk(BoolVal(node.v)) ELSE ConvertErr("bool is required")
    ELSE IF IsSequenceTy(ty) THEN
        IF node.j # "array" \/ (ty.t = "tuple" /\ Len(node.v) # Len(ty.e)) THEN ConvertErr("array is required")
        ELSE LET rs == [i \in 1..Len(node.v) |->
                           rawUnmarshal(node.v[i], IF ty.t = "list" THEN ty.e[1] ELSE ty.e[i], mode)] IN
             IF \E i \in 1..Len(rs) : ~rs[i].ok THEN ConvertErr(rs[CHOOSE i \in 1..Len(rs) : ~rs[i].ok].err)
             ELSE IF ty.t = "list" THEN ConvertOk(Known(ty, [i \in 1..Len(rs) |-> rs[i].val]))
             ELSE ConvertOk(TupleVal([i \in 1..Len(rs) |-> rs[i].val]))
    ELSE IF IsMappingTy(ty) THEN
        IF \/ node.j # "object"
           \/ /\ ty.t = "object"
              /\ \/ Len(node.v) # Len(ty.e)
                 \/ \E i \in 1..Len(ty.e) : node.v[i].k # AttrName(ty.e[i])
        THEN ConvertErr("object is required")
        ELSE LET rs == [i \in 1..Len(node.v) |->
                           rawUnmarshal(node.v[i].v, IF ty.t = "map" THEN ty.e[1] ELSE AttrType(ty.e[i]), mode)] IN
             IF \E i \in 1..Len(rs) : ~rs[i].ok THEN ConvertErr(rs[CHOOSE i \in 1..Len(rs) : ~rs[i].ok].err)
             ELSE IF ty.t = "map" THEN ConvertOk(Known(ty, [i \in 1..Len(rs) |-> Entry(node.v[i].k, rs[i].val)]))
             ELSE ConvertOk(ObjectVal([i \in 1..Len(rs) |-> Entry(node.v[i].k, rs[i].val)]))
    ELSE ConvertErr("unsupported type")

jsonUnmarshal(node, ty)    == rawUnmarshal(node, ty, "JSON")
msgpackUnmarshal(node, ty) == rawUnmarshal(node, ty, "MESSAGEPACK")

(***************************************************************************)
(* Messages.  A protoreflect.Value is tagged with the Go type it holds.  A *)
(* message holds one value per field of its descriptor, in descriptor      *)
(* order: the zero value of the kind, the empty list or map, or an unset   *)
(* message, until the field is set (proto3 fields without presence).       *)
(***************************************************************************)
PV(g, v) == [g |-> g, v |-> v]
InvalidValue == PV("nil", <<>>)

GoType(kind) ==
    IF kind \in {"int32", "sint32", "sfixed32"} THEN "int32"
    ELSE IF kind \in {"int64", "sint64", "sfixed64"} THEN "int64"
    ELSE IF kind \in {"uint32", "fixed32"} THEN "uint32"
    ELSE IF kind \in {"uint64", "fixed64"} THEN "uint64"
    ELSE IF kind = "float" THEN "float32"
    ELSE IF kind = "double" THEN "float64"
    ELSE kind

RECURSIVE newMessageMaybeDynamic(_)
\* The zero value of a singular field, and of one element of a list or map.
ScalarZero(f) ==
    IF f.kind = "message" THEN PV("message", [newMessageMaybeDynamic(f.message) EXCEPT !.set = FALSE])
    ELSE IF f.kind = "string" THEN PV("string", "")
    ELSE IF f.kind = "bool" THEN PV("bool", FALSE)
    ELSE IF f.kind = "bytes" THEN PV("bytes", EmptyBytes)
    ELSE IF f.kind = "enum" THEN PV("enum", NumZero)
    ELSE PV(GoType(f.kind), NumZero)
\* msg.NewField(field): a new, empty value for the field, not yet part of msg
NewField(f) ==
    IF IsList(f) THEN PV("list", <<>>)
    ELSE IF IsMap(f) THEN PV("map", <<>>)
    ELSE IF f.kind = "message" THEN PV("message", newMessageMaybeDynamic(f.message))
    ELSE ScalarZero(f)
\* What msg.Get(field) returns for a field that is not set.
DefaultValue(f) ==
    IF IsList(f) THEN PV("list", <<>>)
    ELSE IF IsMap(f) THEN PV("map", <<>>)
    ELSE ScalarZero(f)

newMessageMaybeDynamic(d) ==
    [set |-> TRUE, vals |-> [i \in 1..Len(d.Fields) |-> DefaultValue(d.Fields[i])]]

MsgGet(m, i)     == m.vals[i]
MsgSet(m, i, pv) == [m EXCEPT !.vals[i] = pv]
MsgClear(m, d, i) == [m EXCEPT !.vals[i] = DefaultValue(d.Fields[i])]

(***************************************************************************)
(* Bodies.  An hcl.Body in native syntax: its attributes (each name once,  *)
(* each with the outcome of evaluating its expression in the EvalContext)  *)
(* and its blocks in source order.                                         *)
(***************************************************************************)
Expr(val)     == [val |-> val, fails |-> FALSE]
FailingExpr   == [val |-> DynamicVal, fails |-> TRUE]
Attribute(name, expr) == [Name |-> name, Expr |-> expr]
Block(type, labels, b) == [Type |-> type, Labels |-> labels, Body |-> b]
Body(attributes, blocks) == [Attributes |-> attributes, Blocks |-> blocks]
EmptyBody == Body(<<>>, <<>>)

\* attr.Expr.Value(ctx)
ExprValue(attr) ==
    IF attr.Expr.fails
    THEN [val |-> DynamicVal, diags |-> <<Diagnostic("Invalid expression", "", attr.Name)>>]
    ELSE [val |-> attr.Expr.val, diags |-> <<>>]

HasName(seq, name) == \E i \in 1..Len(seq) : seq[i].Name = name
ByName(seq, name)  == seq[CHOOSE i \in 1..Len(seq) : seq[i].Name = name]
HasType(seq, type) == \E i \in 1..Len(seq) : seq[i].Type = type
ByType(seq, type)  == seq[CHOOSE i \in 1..Len(seq) : seq[i].Type = type]

\* One diagnostic per element of seq that satisfies Bad(_).
DiagsFor(seq, Bad(_), Diag(_)) ==
    LET bad == SelectSeq(seq, Bad) IN [i \in 1..Len(bad) |-> Diag(bad[i])]

\* body.Content(schema).  The schema pointer is nil when bodySchema failed:
\* reading schema.Attributes then dereferences nil.
Content(b, schemaRet) ==
    IF schemaRet.out # "ok" THEN [out |-> "panic", content |-> EmptyBody, diags |-> <<>>]
    ELSE
    LET schema == schemaRet.schema
        Unsupported(a) == ~HasName(schema.Attributes, a.Name)
        Missing(as) == as.Required /\ ~HasName(b.Attributes, as.Name)
        UnknownType(blk) == ~HasType(schema.Blocks, blk.Type)
        WrongLabels(blk) ==
            /\ HasType(schema.Blocks, blk.Type)
            /\ Len(blk.Labels) # Len(ByType(schema.Blocks, blk.Type).LabelNames)
        Accepted(blk) == ~UnknownType(blk) /\ ~WrongLabels(blk)
        Wanted(a) == ~Unsupported(a)
        UnsupportedDiag(a) == Diagnostic("Unsupported argument", "An argument named %q is not expected here.", a.Name)
        MissingDiag(as) == Diagnostic("Missing required argument",
                                      "The argument %q is required, but no definition was found.", as.Name)
        TypeDiag(blk) == Diagnostic("Unsupported block type", "Blocks of type %q are not expected here.", blk.Type)
        LabelDiag(blk) ==
            IF Len(blk.Labels) < Len(ByType(schema.Blocks, blk.Type).LabelNames)
            THEN Diagnostic("Missing name for block", "All %s blocks must have %d labels.", blk.Type)
            ELSE Diagnostic("Extraneous label for block", "Only %d labels are expected for %s blocks.", blk.Type)
    IN [out |-> "ok",
        content |-> Body(SelectSeq(b.Attributes, Wanted), SelectSeq(b.Blocks, Accepted)),
        diags |-> DiagsFor(schema.Attributes, Missing, MissingDiag)
                  \o DiagsFor(b.Blocks, WrongLabels, LabelDiag)
                  \o DiagsFor(b.Attributes, Unsupported, UnsupportedDiag)
                  \o DiagsFor(b.Blocks, UnknownType, TypeDiag)]

(***************************************************************************)
(* Value encoding: a converted cty value to the protoreflect.Value of a    *)
(* field.  Every result is [out, pv, diags]; out = "panic" when the Go     *)
(* code panics (an accessor of cty applied to a null or unknown value, a   *)
(* nil *big.Int, an explicit panic).                                       *)
(***************************************************************************)
PvOk(pv, diags) == [out |-> "ok", pv |-> pv, diags |-> diags]
PvPanic == [out |-> "panic", pv |-> InvalidValue, diags |-> <<>>]

\* The bounds of the fixed-width integer kinds (math.MinInt32 .. math.MaxUint64).
MinInt32  == Num(TRUE, Pow2(31), FALSE)
MaxInt32  == Num(FALSE, MagDec(Pow2(31)), FALSE)
MinInt64  == Num(TRUE, Pow2(63), FALSE)
MaxInt64  == Num(FALSE, MagDec(Pow2(63)), FALSE)
MaxUint32 == Num(FALSE, MagDec(Pow2(32)), FALSE)
MaxUint64 == Num(FALSE, MagDec(Pow2(64)), FALSE)

\* big.Float.Int(nil): the number truncated towards zero; nil for an infinity.
BigFloatInt(bf) ==
    IF bf.inf = "yes" THEN [nil |-> TRUE, n |-> NumZero]
    ELSE [nil |-> FALSE, n |-> Num(bf.neg /\ ~MagIsZero(bf.mag), bf.mag, FALSE)]
BigFloatIsInt(bf) == bf.inf = "no" /\ ~bf.frac

\* [bi, diags]: bi is the *big.Int returned, bi.nil when it is a nil pointer
intValueInRange(bi, isInt, rng, min, max) ==
    IF ~isInt THEN
        [bi |-> bi, diags |-> <<Diagnostic(unsuitableValueSummary, "The value must be a whole number.", rng)>>]
    ELSE IF IntCmp(bi.n, min) < 0 THEN
        [bi |-> bi, diags |-> <<Diagnostic(unsuitableValueSummary,
                                           "The value must be greater than or equal to %d.", rng)>>]
    ELSE IF IntCmp(bi.n, max) > 0 THEN
        [bi |-> bi, diags |-> <<Diagnostic(unsuitableValueSummary,
                                           "The value must be less than or equal to %d.", rng)>>]
    ELSE [bi |-> bi, diags |-> <<>>]
intValueForFixedIntegerField(val, rng, min, max) ==
    intValueInRange(BigFloatInt(val.v), BigFloatIsInt(val.v), rng, min, max)

\* Whether an accessor of cty (True, AsString, AsBigFloat) can read the value.
Readable(val) == val.st = "known"

\* protoreflect.ValueOfInt32(int32(bi.Int64())) and its three siblings; a
\* method called on a nil *big.Int panics.
ValueOfInt32(r) ==
    IF r.bi.nil THEN PvPanic
    ELSE PvOk(PV("int32", SignedOfBits(MagLow(BigIntInt64Bits(r.bi.n), 2), 2)), r.diags)
ValueOfInt64(r) ==
    IF r.bi.nil THEN PvPanic ELSE PvOk(PV("int64", SignedOfBits(BigIntInt64Bits(r.bi.n), 4)), r.diags)
ValueOfUint32(r) ==
    IF r.bi.nil THEN PvPanic
    ELSE PvOk(PV("uint32", UnsignedOfBits(MagLow(BigIntUint64Bits(r.bi.n), 2))), r.diags)
ValueOfUint64(r) ==
    IF r.bi.nil THEN PvPanic ELSE PvOk(PV("uint64", UnsignedOfBits(BigIntUint64Bits(r.bi.n))), r.diags)

protoValueForSingletonFieldKind(val, rng, f) ==
    IF f.kind = "bool" THEN
        IF Readable(val) THEN PvOk(PV("bool", val.v), <<>>) ELSE PvPanic
    ELSE IF f.kind = "enum" THEN
        PvOk(NewField(f), <<Diagnostic(unsuitableValueSummary, "Decoding enum-typed fields isn't supported yet.", rng)>>)
    ELSE IF f.kind \in {"int32", "sint32", "sfixed32"} THEN
        IF ~Readable(val) THEN PvPanic
        ELSE ValueOfInt32(intValueForFixedIntegerField(val, rng, MinInt32, MaxInt32))
    ELSE IF f.kind \in {"int64", "sint64", "sfixed64"} THEN
        IF ~Readable(val) THEN PvPanic
        ELSE ValueOfInt64(intValueForFixedIntegerField(val, rng, MinInt64, MaxInt64))
    ELSE IF f.kind \in {"uint32", "fixed32"} THEN
        IF ~Readable(val) THEN PvPanic
        ELSE ValueOfUint32(intValueForFixedIntegerField(val, rng, NumZero, MaxUint32))
    ELSE IF f.kind \in {"uint64", "fixed64"} THEN
        IF ~Readable(val) THEN PvPanic
        ELSE ValueOfUint64(intValueForFixedIntegerField(val, rng, NumZero, MaxUint64))
    ELSE IF f.kind = "string" THEN
        IF Readable(val) THEN PvOk(PV("string", val.v), <<>>) ELSE PvPanic
    ELSE IF f.kind = "message" THEN
        PvOk(NewField(f), <<Diagnostic(unsuitableValueSummary, "Decoding message-typed fields isn't supported yet.", rng)>>)
    ELSE PvPanic

\* The bytes of a raw field, or the diagnostic for a value the codec rejects.
rawBytesOrError(r, detail) ==
    IF r.ok THEN PvOk(PV("bytes", r.bytes), <<>>)
    ELSE PvOk(PV("bytes", EmptyBytes), <<Diagnostic("Internal error while decoding configuration", detail, "")>>)

protoValueForSingletonRawField(val, rng, attr) ==
    IF attr.RawMode = "MESSAGEPACK" THEN
        rawBytesOrError(msgpackMarshal(val, TypeConstraint(attr).ty),
            "This attribute value is not compatible with the MessagePack field where it'll be stored internally: %s.")
    ELSE IF attr.RawMode = "JSON" THEN
        rawBytesOrError(jsonMarshal(val, TypeConstraint(attr).ty),
            "This attribute value is not compatible with the JSON field where it'll be stored internally: %s.")
    ELSE IF attr.RawMode = "NOT_RAW" THEN PvPanic
    ELSE PvOk(PV("bytes", EmptyBytes),
              <<schemaErrorDiagnostic(schemaErrorf(attr.TargetField.FullName, "invalid raw mode %s", <<attr.RawMode>>))>>)

protoValueForSingletonElem(r, val, rng, f) ==
    IF r.out = "panic" THEN PvPanic
    ELSE IF r.out = "error" THEN PvOk(InvalidValue, <<schemaErrorDiagnostic(r.err)>>)
    ELSE IF r.elem.k # "FieldAttribute" THEN PvPanic
    ELSE IF r.elem.RawMode # "NOT_RAW" THEN
        IF f.kind # "bytes" THEN PvPanic ELSE protoValueForSingletonRawField(val, rng, r.elem)
    ELSE IF f.kind = "bytes" THEN PvPanic
    ELSE IF ~IsKnown(val) THEN
        PvOk(NewField(f), <<Diagnostic(unsuitableValueSummary, "Unknown values are not allowed here.", rng)>>)
    ELSE protoValueForSingletonFieldKind(val, rng, f)

protoValueForSingletonField(val, rng, f) == protoValueForSingletonElem(GetFieldElem(f), val, rng, f)

RECURSIVE protoValueForListFieldFrom(_, _, _, _, _)

\* (faulty variant: an element with errors is skipped without a diagnostic)
protoValueForListElemSilent(r, acc) ==
    IF r.out = "panic" THEN PvPanic
    ELSE IF HasErrors(r.diags) THEN acc
    ELSE PvOk(PV("list", Append(acc.pv.v, r.pv)), acc.diags \o r.diags)

\* One turn of the loop of protoValueForListField: an element with errors
\* is skipped (continue), any other is appended.
protoValueForListElem(r, acc) ==
    IF r.out = "panic" THEN PvPanic
    ELSE IF HasErrors(r.diags) THEN PvOk(acc.pv, acc.diags \o r.diags)
    ELSE PvOk(PV("list", Append(acc.pv.v, r.pv)), acc.diags \o r.diags)

\* The loop of protoValueForListField, from element pos on; acc is the list
\* built so far.
protoValueForListFieldFrom(vals, rng, f, pos, acc) ==
    IF acc.out # "ok" \/ pos > Len(vals) THEN acc
    ELSE protoValueForListFieldFrom(vals, rng, f, pos + 1,
             protoValueForListElem(protoValueForSingletonField(vals[pos], rng, f), acc))

protoValueForListField(vals, rng, f) == protoValueForListFieldFrom(vals, rng, f, 1, PvOk(PV("list", <<>>), <<>>))

\* field.MapValue(): the descriptor of the values of a map field
MapValue(f) == [f EXCEPT !.card = "single"]

\* The order in which `for k, v := range vals` visits the entries of a Go
\* map is not specified: this run's is mapOrder.
RangeOrder(n) == IF mapOrder = "ascending" THEN [i \in 1..n |-> i] ELSE [i \in 1..n |-> n + 1 - i]

RECURSIVE protoValueForMapFieldFrom(_, _, _, _, _)

\* One turn of the loop of protoValueForMapField: an entry with errors is
\* skipped (continue), any other is stored under its key.
protoValueForMapElem(r, k, acc) ==
    IF r.out = "panic" THEN [acc EXCEPT !.out = "panic"]
    ELSE IF HasErrors(r.diags) THEN [acc EXCEPT !.diags = @ \o r.diags]
    ELSE [acc EXCEPT !.diags = @ \o r.diags, !.kept = MapPut(@, k, r.pv)]

\* The loop of protoValueForMapField; order lists the entries still to
\* visit, kept the values stored so far by the position of their key,
\* returned whether the loop was left by its return statement.
protoValueForMapFieldFrom(vals, rng, f, order, acc) ==
    IF acc.out # "ok" \/ acc.returned \/ Len(order) = 0 THEN acc
    ELSE IF ~IsKnown(vals[Head(order)].v) THEN
        [acc EXCEPT !.returned = TRUE, !.kept = EmptyMap,
                    !.diags = @ \o <<Diagnostic(unsuitableValueSummary, "Unknown values are not allowed here.", rng)>>]
    ELSE protoValueForMapFieldFrom(vals, rng, f, Tail(order),
             protoValueForMapElem(protoValueForSingletonFieldKind(vals[Head(order)].v, rng, MapValue(f)),
                                  Head(order), acc))

\* The i-th smallest member of a set of positions.
NthOf(S, i) == CHOOSE k \in S : Cardinality({j \in S : j < k}) = i - 1

\* The map value: the stored entries, in the order of their keys.
protoValueOfMap(r, vals) ==
    IF r.out = "panic" THEN PvPanic
    ELSE PvOk(PV("map", [i \in 1..Cardinality(DOMAIN r.kept) |->
                            Entry(vals[NthOf(DOMAIN r.kept, i)].k, r.kept[NthOf(DOMAIN r.kept, i)])]),
              r.diags)

protoValueForMapField(vals, rng, f) ==
    protoValueOfMap(protoValueForMapFieldFrom(vals, rng, f, RangeOrder(Len(vals)),
                        [out |-> "ok", returned |-> FALSE, kept |-> EmptyMap, diags |-> <<>>]), vals)

\* val.AsValueSlice() and val.AsValueMap() read the elements of a known,
\* non-null collection (or of one without elements by its type).
Iterable(val) == val.st = "known" \/ (val.ty.t \in {"tuple", "object"} /\ Len(val.ty.e) = 0)
Elements(val) == IF val.st = "known" THEN val.v ELSE <<>>

protoValueForField(val, rng, f) ==
    IF IsList(f) THEN
        IF val.ty.t \in {"list", "set", "tuple"} THEN
            (IF Iterable(val) THEN protoValueForListField(Elements(val), rng, f) ELSE PvPanic)
        ELSE PvOk(NewField(f), <<Diagnostic(unsuitableValueSummary, "This argument requires a sequence of values.", rng)>>)
    ELSE IF IsMap(f) THEN
        IF IsMappingTy(val.ty) THEN
            (IF Iterable(val) THEN protoValueForMapField(Elements(val), rng, f) ELSE PvPanic)
        ELSE PvOk(NewField(f), <<Diagnostic(unsuitableValueSummary,
                                            "This argument requires a mapping from strings to values.", rng)>>)
    ELSE protoValueForSingletonField(val, rng, f)

(***************************************************************************)
(* DecodeBody.  The state of a decode is [out, msg, diags]; out = "panic"  *)
(* when the Go code panics before returning.  A function of the source is  *)
(* a chain of operators, one for each of its steps, and each step is       *)
(* applied to the result of the call the step before it made.              *)
(***************************************************************************)
DecodeOk(m, diags) == [out |-> "ok", msg |-> m, diags |-> diags]
DecodePanic == [out |-> "panic", msg |-> [set |-> FALSE, vals |-> <<>>], diags |-> <<>>]
AddDiags(st, diags) == [st EXCEPT !.diags = @ \o diags]
AddSchemaError(st, r) == IF r.out = "error" THEN AddDiags(st, <<schemaErrorDiagnostic(r.err)>>) ELSE st

InappropriateValue(elem) ==
    Diagnostic(unsuitableValueSummary, "Inappropriate value for attribute %q: %s.", elem.Name)

\* msg.Set(field, protoVal), unless protoValueForField reported errors
fillAttributeSet(pv, i, st) ==
    IF pv.out = "panic" THEN DecodePanic
    ELSE IF HasErrors(pv.diags) THEN AddDiags(st, pv.diags)
    ELSE [AddDiags(st, pv.diags) EXCEPT !.msg = MsgSet(@, i, pv.pv)]

\* after the second conversion, to the physical constraint of the field
fillAttributePhysical(c2, f, i, elem, st) ==
    IF ~c2.ok THEN AddDiags(st, <<InappropriateValue(elem)>>)
    ELSE fillAttributeSet(protoValueForField(c2.val, elem.Name, f), i, st)

fillAttributeNeedTy(val, needTy, f, i, elem, st) ==
    fillAttributePhysical(Convert(val, needTy.ty), f, i, elem,
                          IF needTy.ok THEN st ELSE AddDiags(st, <<schemaErrorDiagnostic(needTy.err)>>))

\* A faulty variant: a null value is passed on to the encoding of the field
\* like any other value.
fillAttributeConvertedNullEncoded(c1, f, i, elem, st) ==
    IF ~c1.ok THEN AddDiags(st, <<InappropriateValue(elem)>>)
    ELSE fillAttributeNeedTy(c1.val, valuePhysicalConstraintForFieldKind(c1.val.ty, f), f, i, elem, st)

\* after the first conversion, to the type constraint of the attribute
fillAttributeConverted(c1, f, i, elem, st) ==
    IF ~c1.ok THEN AddDiags(st, <<InappropriateValue(elem)>>)
    ELSE IF IsNull(c1.val) THEN
        IF elem.Required
        THEN AddDiags(st, <<Diagnostic(unsuitableValueSummary,
                                       "Attribute %q is required, so must not be null.", elem.Name)>>)
        ELSE st
    ELSE fillAttributeNeedTy(c1.val, valuePhysicalConstraintForFieldKind(c1.val.ty, f), f, i, elem, st)

fillAttributeWantTy(val, wantTy, f, i, elem, st) ==
    IF HasErrors(wantTy.diags) THEN AddDiags(st, wantTy.diags)
    ELSE fillAttributeConverted(Convert(val, wantTy.ty), f, i, elem, AddDiags(st, wantTy.diags))

fillAttributeValue(ev, f, i, elem, st) ==
    IF HasErrors(ev.diags) THEN AddDiags(st, ev.diags)
    ELSE fillAttributeWantTy(ev.val, TypeConstraint(elem), f, i, elem, AddDiags(st, ev.diags))

\* case FieldAttribute of fillMessageFromContent, for field i of desc
fillAttribute(content, d, i, elem, st) ==
    IF ~HasName(content.Attributes, elem.Name) THEN
        IF elem.Required
        THEN AddDiags([st EXCEPT !.msg = MsgClear(@, d, i)],
                      <<Diagnostic("Missing required argument",
                                   "The argument %q is required, but no definition was found.", "")>>)
        ELSE [st EXCEPT !.msg = MsgClear(@, d, i)]
    ELSE fillAttributeValue(ExprValue(ByName(content.Attributes, elem.Name)), d.Fields[i], i, elem,
                            [st EXCEPT !.msg = MsgClear(@, d, i)])

RECURSIVE DecodeBody(_, _)
RECURSIVE fillMessageFromContent(_, _, _)
RECURSIVE setBlockLabels(_, _, _, _, _)

setBlockLabel(r, block, nested, pos, nextLabel, st) ==
    IF r.out = "panic" THEN DecodePanic
    ELSE IF r.out = "error" THEN setBlockLabels(block, nested, pos + 1, nextLabel, st)
    ELSE IF r.elem.k = "FieldBlockLabel" THEN
        IF \/ nextLabel > Len(block.Labels)
           \/ nested.Fields[pos].kind # "string" \/ IsList(nested.Fields[pos]) \/ IsMap(nested.Fields[pos])
        THEN DecodePanic
        ELSE setBlockLabels(block, nested, pos + 1, nextLabel + 1,
                            [st EXCEPT !.msg = MsgSet(@, pos, PV("string", block.Labels[nextLabel]))])
    ELSE setBlockLabels(block, nested, pos + 1, nextLabel, st)

\* The loop over the nested fields in newMessageForBlock, from field pos on.
setBlockLabels(block, nested, pos, nextLabel, st) ==
    IF st.out # "ok" \/ pos > Len(nested.Fields) THEN st
    ELSE setBlockLabel(GetFieldElem(nested.Fields[pos]), block, nested, pos, nextLabel, st)

newMessageForBlock(block, elem) == setBlockLabels(block, elem.Nested, 1, 1, DecodeBody(block.Body, elem.Nested))

RECURSIVE fillRepeatedBlocks(_, _, _, _, _)

\* list.Append(protoreflect.ValueOfMessage(nestedMsg))
fillRepeatedBlock(r, content, elem, pos, list, st) ==
    IF r.out = "panic" THEN [st |-> DecodePanic, list |-> list]
    ELSE fillRepeatedBlocks(content, elem, pos + 1,
                            PV("list", Append(list.v, PV("message", r.msg))), AddDiags(st, r.diags))

\* The loop over content.Blocks of a repeated block type, from block pos
\* on; list is the value made by msg.NewField(field).List().
fillRepeatedBlocks(content, elem, pos, list, st) ==
    IF st.out # "ok" \/ pos > Len(content.Blocks) THEN [st |-> st, list |-> list]
    ELSE IF content.Blocks[pos].Type # elem.TypeName THEN fillRepeatedBlocks(content, elem, pos + 1, list, st)
    ELSE fillRepeatedBlock(newMessageForBlock(content.Blocks[pos], elem), content, elem, pos, list, st)

RECURSIVE fillSingletonBlock(_, _, _, _, _, _)

\* msg.Set(field, protoreflect.ValueOfMessage(nestedMsg))
fillSingletonBlockSet(r, content, elem, i, pos, st) ==
    IF r.out = "panic" THEN DecodePanic
    ELSE fillSingletonBlock(content, elem, i, pos + 1, pos,
                            [AddDiags(st, r.diags) EXCEPT !.msg = MsgSet(@, i, PV("message", r.msg))])

\* The source range of the block at position pos of a body (block.TypeRange
\* and block.DefRange start at the same place).
BlockRange(pos) == "block " \o ToString(pos)

\* The diagnostic about the block at pos, found being the position of the
\* first block of the type.
DuplicateBlock(elem, found, pos) ==
    Diagnostic("Duplicate " \o elem.TypeName \o " block",
               "There may be no more than one " \o elem.TypeName \o " block. Previous block declared at "
                   \o BlockRange(found) \o ".",
               BlockRange(pos))

\* (faulty variant: the loop goes on after the duplicate is reported)
fillSingletonBlockNoBreak(content, elem, i, pos, found, st) ==
    IF st.out # "ok" \/ pos > Len(content.Blocks) THEN st
    ELSE IF content.Blocks[pos].Type # elem.TypeName
    THEN fillSingletonBlock(content, elem, i, pos + 1, found, st)
    ELSE IF found # 0 THEN
        fillSingletonBlock(content, elem, i, pos + 1, found, AddDiags(st, <<DuplicateBlock(elem, found, pos)>>))
    ELSE fillSingletonBlockSet(newMessageForBlock(content.Blocks[pos], elem), content, elem, i, pos, st)

\* The loop over content.Blocks of a singleton block type; found is the
\* position of the block already stored, 0 while there is none.
fillSingletonBlock(content, elem, i, pos, found, st) ==
    IF st.out # "ok" \/ pos > Len(content.Blocks) THEN st
    ELSE IF content.Blocks[pos].Type # elem.TypeName
    THEN fillSingletonBlock(content, elem, i, pos + 1, found, st)
    ELSE IF found # 0 THEN AddDiags(st, <<DuplicateBlock(elem, found, pos)>>)
    ELSE fillSingletonBlockSet(newMessageForBlock(content.Blocks[pos], elem), content, elem, i, pos, st)

\* case FieldNestedBlockType of fillMessageFromContent
fillNestedBlockType(content, d, i, elem, st) ==
    IF elem.Repeated
    THEN fillRepeatedBlocks(content, elem, 1, NewField(d.Fields[i]), [st EXCEPT !.msg = MsgClear(@, d, i)]).st
    ELSE fillSingletonBlock(content, elem, i, 1, 0, [st EXCEPT !.msg = MsgClear(@, d, i)])

\* (faulty variant: the child message is filled but never stored)
fillFlattenedUnset(r, i, st) == IF r.out = "panic" THEN DecodePanic ELSE AddDiags(st, r.diags)

\* msg.Set(field, protoreflect.ValueOfMessage(nestedMsg)) of case FieldFlattened
fillFlattenedSet(r, i, st) ==
    IF r.out = "panic" THEN DecodePanic
    ELSE [AddDiags(st, r.diags) EXCEPT !.msg = MsgSet(@, i, PV("message", r.msg))]

\* case FieldFlattened of fillMessageFromContent
fillFlattened(content, d, i, elem, st) ==
    fillFlattenedSet(fillMessageFromContent(content, newMessageMaybeDynamic(elem.Nested), elem.Nested), i,
                     [st EXCEPT !.msg = MsgClear(@, d, i)])

\* switch elem := elem.(type)
fillField(content, d, i, elem, st) ==
    IF elem.k = "FieldAttribute" THEN fillAttribute(content, d, i, elem, st)
    ELSE IF elem.k = "FieldNestedBlockType" THEN fillNestedBlockType(content, d, i, elem, st)
    ELSE IF elem.k = "FieldFlattened" THEN fillFlattened(content, d, i, elem, st)
    ELSE st

RECURSIVE fillFields(_, _, _, _)

fillFieldElem(r, content, d, pos, st) ==
    IF r.out = "panic" THEN DecodePanic
    ELSE fillFields(content, d, pos + 1, fillField(content, d, pos, r.elem, AddSchemaError(st, r)))

\* A faulty variant of the loop: it ends at the first field that reported
\* an error.
fillFieldsStopOnError(content, d, pos, st) ==
    IF st.out # "ok" \/ pos > Len(d.Fields) \/ HasErrors(st.diags) THEN st
    ELSE fillFieldElem(GetFieldElem(d.Fields[pos]), content, d, pos, st)

\* The loop over the fields in fillMessageFromContent, from field pos on.
fillFields(content, d, pos, st) ==
    IF st.out # "ok" \/ pos > Len(d.Fields) THEN st
    ELSE fillFieldElem(GetFieldElem(d.Fields[pos]), content, d, pos, st)

fillMessageFromContent(content, m, d) == fillFields(content, d, 1, DecodeOk(m, <<>>))

DecodeBodyFilled(r, diags) ==
    IF r.out = "panic" THEN DecodePanic ELSE DecodeOk(r.msg, diags \o r.diags)

DecodeBodyContent(c, d, diags) ==
    IF c.out = "panic" THEN DecodePanic
    ELSE DecodeBodyFilled(fillMessageFromContent(c.content, newMessageMaybeDynamic(d), d), diags \o c.diags)

DecodeBodySchema(schemaRet, b, d) ==
    IF schemaRet.out = "panic" THEN DecodePanic
    ELSE DecodeBodyContent(Content(b, schemaRet), d,
                           IF schemaRet.out = "error" THEN <<schemaErrorDiagnostic(schemaRet.err)>> ELSE <<>>)

DecodeBody(b, d) == DecodeBodySchema(bodySchema(d), b, d)

(***************************************************************************)
(* ObjectTypeConstraintForMessageDesc: the object type constraint of a     *)
(* message descriptor, [out, ty, err] with out "ok", "error" or "panic".   *)
(***************************************************************************)
TypesState(atys)    == [out |-> "ok", atys |-> atys, err |-> NoError]
TypesStateError(e)  == [out |-> "error", atys |-> EmptyMap, err |-> e]
TypesStatePanic     == [out |-> "panic", atys |-> EmptyMap, err |-> NoError]
ConstraintOk(ty)    == [out |-> "ok", ty |-> ty, err |-> NoError]
ConstraintError(e)  == [out |-> "error", ty |-> NilType, err |-> e]
ConstraintPanic     == [out |-> "panic", ty |-> NilType, err |-> NoError]

RECURSIVE ObjectTypeConstraintForMessageDesc(_)
RECURSIVE buildObjectTypeAtysForMessageDesc(_, _)
RECURSIVE typeOfFields(_, _, _)

\* A faulty variant: every collection kind but TUPLE gives a list type, and
\* the dynamic components of the nested type are not looked at.
typeOfCollectionKindAlwaysList(nested, f, elem, st) ==
    IF nested.out = "panic" THEN TypesStatePanic
    ELSE IF nested.out = "error" THEN TypesStateError(nested.err)
    ELSE IF elem.CollectionKind = "AUTO" THEN TypesState(MapPut(st.atys, elem.TypeName, nested.ty))
    ELSE IF elem.CollectionKind = "TUPLE" THEN TypesState(MapPut(st.atys, elem.TypeName, DynamicPseudoType))
    ELSE TypesState(MapPut(st.atys, elem.TypeName, TyList(nested.ty)))

\* switch elem.CollectionKind, with the object type of the nested message
typeOfCollectionKind(nested, f, elem, st) ==
    IF nested.out = "panic" THEN TypesStatePanic
    ELSE IF nested.out = "error" THEN TypesStateError(nested.err)
    ELSE IF elem.CollectionKind = "AUTO" THEN TypesState(MapPut(st.atys, elem.TypeName, nested.ty))
    ELSE IF elem.CollectionKind = "TUPLE" THEN TypesState(MapPut(st.atys, elem.TypeName, DynamicPseudoType))
    ELSE IF elem.CollectionKind = "LIST" THEN
        IF HasDynamicTypes(nested.ty)
        THEN TypesStateError(schemaErrorf(f.FullName,
                 "can't use (hcl.block).kind = LIST with a block type containing an attribute with an 'any' constraint", <<>>))
        ELSE TypesState(MapPut(st.atys, elem.TypeName, TyList(nested.ty)))
    ELSE IF elem.CollectionKind = "SET" THEN
        IF HasDynamicTypes(nested.ty)
        THEN TypesStateError(schemaErrorf(f.FullName,
                 "can't use (hcl.block).kind = SET with a block type containing an attribute with an 'any' constraint", <<>>))
        ELSE TypesState(MapPut(st.atys, elem.TypeName, TySet(nested.ty)))
    ELSE TypesStateError(schemaErrorf(f.FullName, "unsupported block collection kind %s", <<elem.CollectionKind>>))

\* case FieldNestedBlockType of buildObjectTypeAtysForMessageDesc
typeOfNestedBlockType(f, elem, st) ==
    typeOfCollectionKind(ObjectTypeConstraintForMessageDesc(elem.Nested), f, elem, st)

\* case FieldAttribute of buildObjectTypeAtysForMessageDesc
typeOfAttribute(aty, f, elem, st) ==
    IF HasErrors(aty.diags)
    THEN TypesStateError(schemaErrorf(f.FullName, "invalid type constraint expression", <<>>))
    ELSE TypesState(MapPut(st.atys, elem.Name, aty.ty))

\* case FieldBlockLabel of buildObjectTypeAtysForMessageDesc
typeOfBlockLabel(f, elem, st) ==
    IF f.kind # "string" \/ IsList(f) \/ IsMap(f)
    THEN TypesStateError(schemaErrorf(f.FullName, "only string fields can be used for block labels", <<>>))
    ELSE TypesState(MapPut(st.atys, elem.Name, TyString))

\* switch elem := elem.(type)
typeOfField(r, f, st) ==
    IF r.out = "panic" THEN TypesStatePanic
    ELSE IF r.out = "error" THEN TypesStateError(r.err)
    ELSE IF r.elem.k = "nil" THEN st
    ELSE IF r.elem.k = "FieldAttribute" THEN typeOfAttribute(TypeConstraint(r.elem), f, r.elem, st)
    ELSE IF r.elem.k = "FieldNestedBlockType" THEN typeOfNestedBlockType(f, r.elem, st)
    ELSE IF r.elem.k = "FieldFlattened" THEN buildObjectTypeAtysForMessageDesc(r.elem.Nested, st.atys)
    ELSE typeOfBlockLabel(f, r.elem, st)

\* The loop over the fields in buildObjectTypeAtysForMessageDesc, from pos on.
typeOfFields(d, pos, st) ==
    IF st.out # "ok" \/ pos > Len(d.Fields) THEN st
    ELSE typeOfFields(d, pos + 1, typeOfField(GetFieldElem(d.Fields[pos]), d.Fields[pos], st))

buildObjectTypeAtysForMessageDesc(d, atys) == typeOfFields(d, 1, TypesState(atys))

ConstraintOfTypes(r) ==
    IF r.out = "panic" THEN ConstraintPanic
    ELSE IF r.out = "error" THEN ConstraintError(r.err)
    ELSE ConstraintOk(ObjectOfMap(r.atys))

ObjectTypeConstraintForMessageDesc(d) == ConstraintOfTypes(buildObjectTypeAtysForMessageDesc(d, EmptyMap))

(***************************************************************************)
(* ObjectValueForMessage: the object value of a message, [out, val, err]   *)
(* with out "ok", "error" or "panic".  A message is reflected together     *)
(* with its descriptor.                                                    *)
(***************************************************************************)
ValueOk(val)    == [out |-> "ok", val |-> val, err |-> NoError]
ValueError(e)   == [out |-> "error", val |-> DynamicVal, err |-> e]
ValuePanic      == [out |-> "panic", val |-> DynamicVal, err |-> NoError]
AttrsState(attrs)   == [out |-> "ok", attrs |-> attrs, err |-> NoError]
AttrsStateError(e)  == [out |-> "error", attrs |-> EmptyMap, err |-> e]
AttrsStatePanic     == [out |-> "panic", attrs |-> EmptyMap, err |-> NoError]
\* path.NewErrorf: an error that is not a schema error
PathError(path, format) == [Decl |-> path, Err |-> [format |-> format, args |-> <<>>]]

RECURSIVE objectValueForMessage(_, _)
RECURSIVE buildObjectValueAttrsForMessage(_, _, _)
RECURSIVE hclValueForProtoFieldValue(_, _, _)
RECURSIVE valueOfFields(_, _, _, _)

\* A loop over elements returns at the first result that is not ok.
AllOk(rs) == \A i \in 1..Len(rs) : rs[i].out = "ok"
FirstNotOk(rs) == rs[CHOOSE i \in 1..Len(rs) : rs[i].out # "ok" /\ \A j \in 1..(i - 1) : rs[j].out = "ok"]
NotOk(r) == IF r.out = "panic" THEN ValuePanic ELSE ValueError(r.err)
Values(rs) == [i \in 1..Len(rs) |-> rs[i].val]

\* case protoreflect.List of hclValueForProtoFieldValue
hclValueForList(rs) == IF AllOk(rs) THEN ValueOk(TupleVal(Values(rs))) ELSE NotOk(FirstNotOk(rs))

\* case protoreflect.Map of hclValueForProtoFieldValue
hclValueForMap(rs, entries) ==
    IF AllOk(rs) THEN ValueOk(ObjectVal([i \in 1..Len(rs) |-> Entry(entries[i].k, rs[i].val)]))
    ELSE NotOk(FirstNotOk(rs))

hclValueForRawDecoded(v, attr) ==
    IF v.ok THEN ValueOk(v.val)
    ELSE ValueError(PathError(attr.Name, "invalid encoding of %s value as bytes: %s"))

hclValueForRaw(raw, ty, attr) ==
    IF HasErrors(ty.diags) THEN
        ValueError(schemaErrorf(attr.TargetField.FullName, "invalid type constraint expression", <<>>))
    ELSE IF attr.RawMode = "JSON" THEN hclValueForRawDecoded(jsonUnmarshal(raw, ty.ty), attr)
    ELSE IF attr.RawMode = "MESSAGEPACK" THEN hclValueForRawDecoded(msgpackUnmarshal(raw, ty.ty), attr)
    ELSE ValueError(schemaErrorf(attr.TargetField.FullName, "unsupported raw mode %s", <<attr.RawMode>>))

\* case []byte of hclValueForProtoFieldValue
hclValueForBytes(raw, attr, subElem) ==
    IF subElem THEN
        ValueError(schemaErrorf(attr.TargetField.FullName,
            "can only use bytes directly as a raw field, not as element of collection in another field", <<>>))
    ELSE IF raw.j = "empty" THEN ValueOk(NullVal(DynamicPseudoType))
    ELSE hclValueForRaw(raw, TypeConstraint(attr), attr)

hclValueForProtoFieldValue(val, attr, subElem) ==
    IF val.g = "bool" THEN ValueOk(BoolVal(val.v))
    ELSE IF val.g \in {"int32", "int64", "uint32", "uint64", "float32", "float64"} THEN ValueOk(NumberVal(val.v))
    ELSE IF val.g = "string" THEN ValueOk(StringVal(val.v))
    ELSE IF val.g = "bytes" THEN hclValueForBytes(val.v, attr, subElem)
    ELSE IF val.g = "enum" THEN
        ValueError(schemaErrorf(attr.TargetField.FullName, "can't convert enum value to HCL value yet", <<>>))
    ELSE IF val.g = "message" THEN objectValueForMessage(val.v, attr.TargetField.message)
    ELSE IF val.g = "list" THEN
        hclValueForList([i \in 1..Len(val.v) |-> hclValueForProtoFieldValue(val.v[i], attr, TRUE)])
    ELSE IF val.g = "map" THEN
        hclValueForMap([i \in 1..Len(val.v) |-> hclValueForProtoFieldValue(val.v[i].v, attr, TRUE)], val.v)
    ELSE ValueError(schemaErrorf(attr.TargetField.FullName, "can't convert %T to HCL value", <<val.g>>))

valueOfAttributeConverted(c, elem, st) ==
    IF ~c.ok THEN AttrsStateError(PathError(elem.Name, "invalid encoding of %s value as %s: %s"))
    ELSE AttrsState(MapPut(st.attrs, elem.Name, c.val))

\* A faulty variant: the reflected value is stored as it is, not converted
\* to the attribute's type constraint.
valueOfAttributeTypedUnconverted(v, ty, f, elem, st) ==
    IF HasErrors(ty.diags)
    THEN AttrsStateError(schemaErrorf(f.FullName, "invalid type constraint expression", <<>>))
    ELSE AttrsState(MapPut(st.attrs, elem.Name, v))

valueOfAttributeTyped(v, ty, f, elem, st) ==
    IF HasErrors(ty.diags)
    THEN AttrsStateError(schemaErrorf(f.FullName, "invalid type constraint expression", <<>>))
    ELSE valueOfAttributeConverted(Convert(v, ty.ty), elem, st)

valueOfAttributeValue(v, f, elem, st) ==
    IF v.out = "panic" THEN AttrsStatePanic
    ELSE IF v.out = "error" THEN AttrsStateError(v.err)
    ELSE valueOfAttributeTyped(v.val, TypeConstraint(elem), f, elem, st)

\* case FieldAttribute of buildObjectValueAttrsForMessage
valueOfAttribute(m, f, i, elem, st) ==
    valueOfAttributeValue(hclValueForProtoFieldValue(MsgGet(m, i), elem, FALSE), f, elem, st)

\* case FieldNestedBlockKindAuto, singleton
valueOfSingletonBlock(nestedObj, elem, st) ==
    IF nestedObj.out = "panic" THEN AttrsStatePanic
    ELSE IF nestedObj.out = "error" THEN AttrsStateError(nestedObj.err)
    ELSE AttrsState(MapPut(st.attrs, elem.TypeName, nestedObj.val))

\* cty.ListValEmpty or cty.SetValEmpty of the nested object type
valueOfEmptyCollection(nestedTy, elem, st) ==
    IF nestedTy.out = "panic" THEN AttrsStatePanic
    ELSE IF nestedTy.out = "error" THEN AttrsStateError(nestedTy.err)
    ELSE AttrsState(MapPut(st.attrs, elem.TypeName,
             IF elem.CollectionKind = "LIST" THEN ListValEmpty(nestedTy.ty) ELSE SetValEmpty(nestedTy.ty)))

\* switch elem.CollectionKind, with the object values of the nested messages
valueOfCollectionKind(elems, f, elem, st) ==
    IF elem.CollectionKind = "TUPLE" THEN AttrsState(MapPut(st.attrs, elem.TypeName, TupleVal(elems)))
    ELSE IF elem.CollectionKind \in {"LIST", "SET"} THEN
        IF Len(elems) = 0 THEN valueOfEmptyCollection(ObjectTypeConstraintForMessageDesc(f.message), elem, st)
        ELSE IF ~SameTypes(elems) THEN AttrsStatePanic
        ELSE AttrsState(MapPut(st.attrs, elem.TypeName,
                 IF elem.CollectionKind = "LIST" THEN ListVal(elems) ELSE SetVal(elems)))
    ELSE AttrsStateError(schemaErrorf(f.FullName, "unsupported collection kind %s", <<elem.CollectionKind>>))

valueOfRepeatedBlocks(rs, f, elem, st) ==
    IF AllOk(rs) THEN valueOfCollectionKind(Values(rs), f, elem, st)
    ELSE IF FirstNotOk(rs).out = "panic" THEN AttrsStatePanic
    ELSE AttrsStateError(FirstNotOk(rs).err)

\* case FieldNestedBlockType of buildObjectValueAttrsForMessage
valueOfNestedBlockType(m, f, i, elem, st) ==
    IF elem.CollectionKind = "AUTO"
    THEN valueOfSingletonBlock(objectValueForMessage(MsgGet(m, i).v, elem.Nested), elem, st)
    ELSE valueOfRepeatedBlocks([j \in 1..Len(MsgGet(m, i).v) |->
                                   objectValueForMessage(MsgGet(m, i).v[j].v, elem.Nested)], f, elem, st)

\* case FieldBlockLabel of buildObjectValueAttrsForMessage
valueOfBlockLabel(val, f, elem, st) ==
    IF val.g # "string"
    THEN AttrsStateError(schemaErrorf(f.FullName, "only string fields can be used for block labels", <<>>))
    ELSE AttrsState(MapPut(st.attrs, elem.Name, StringVal(val.v)))

\* switch elem := elem.(type)
valueOfField(r, m, f, i, st) ==
    IF r.out = "panic" THEN AttrsStatePanic
    ELSE IF r.out = "error" THEN AttrsStateError(r.err)
    ELSE IF r.elem.k = "nil" THEN st
    ELSE IF r.elem.k = "FieldAttribute" THEN valueOfAttribute(m, f, i, r.elem, st)
    ELSE IF r.elem.k = "FieldNestedBlockType" THEN valueOfNestedBlockType(m, f, i, r.elem, st)
    ELSE IF r.elem.k = "FieldFlattened" THEN buildObjectValueAttrsForMessage(MsgGet(m, i).v, r.elem.Nested, st.attrs)
    ELSE valueOfBlockLabel(MsgGet(m, i), f, r.elem, st)

\* The loop over the fields in buildObjectValueAttrsForMessage, from pos on.
valueOfFields(m, d, pos, st) ==
    IF st.out # "ok" \/ pos > Len(d.Fields) THEN st
    ELSE valueOfFields(m, d, pos + 1, valueOfField(GetFieldElem(d.Fields[pos]), m, d.Fields[pos], pos, st))

buildObjectValueAttrsForMessage(m, d, attrs) == valueOfFields(m, d, 1, AttrsState(attrs))

ValueOfAttrs(r) ==
    IF r.out = "panic" THEN ValuePanic
    ELSE IF r.out = "error" THEN ValueError(r.err)
    ELSE ValueOk(ObjectValOfMap(r.attrs))

objectValueForMessage(m, d) == ValueOfAttrs(buildObjectValueAttrsForMessage(m, d, EmptyMap))

ObjectValueForMessage(m, d) == objectValueForMessage(m, d)

(***************************************************************************)
(* Message-valued attributes: valueForMessageField and its builders.  The  *)
(* result is [out, pv, kind, err, ...]: out is "ok", "error" or "panic";   *)
(* kind tells a schemaError from an attrValueError; the other fields hold  *)
(* what the methods of the error return, once they have been called.       *)
(***************************************************************************)
structpbValueName == "google.protobuf.Value"
StructpbValue == [FullName |-> structpbValueName, Fields |-> <<>>, Oneofs |-> <<>>]
NoMessage == [out |-> "none", parts |-> <<>>]
NoDiagnostic == [Severity |-> "", Summary |-> "", Detail |-> "", Subject |-> "", Decl |-> ""]
BuiltOk(pv) ==
    [out |-> "ok", pv |-> pv, kind |-> "none", err |-> NoError,
     message |-> NoMessage, unwrapped |-> NoMessage, detail |-> NoMessage, diag |-> NoDiagnostic]
BuiltError(kind, e) ==
    [out |-> "error", pv |-> InvalidValue, kind |-> kind, err |-> e,
     message |-> NoMessage, unwrapped |-> NoMessage, detail |-> NoMessage, diag |-> NoDiagnostic]
BuiltPanic ==
    [out |-> "panic", pv |-> InvalidValue, kind |-> "none", err |-> NoError,
     message |-> NoMessage, unwrapped |-> NoMessage, detail |-> NoMessage, diag |-> NoDiagnostic]
BuiltSchemaError(decl, format, args) == BuiltError("schemaError", schemaErrorf(decl, format, args))
\* attrValueErrorf and attrValueErrorWrap: a cty.PathError with the empty path
attrValueErrorf(format, args) == BuiltError("attrValueError", schemaErrorf("", format, args))

\* ctystructpb.ToStructValue: the value as a structpb.Value message, held
\* here as the document it encodes; like the JSON codec it rejects values
\* that do not conform to the type constraint or are not wholly known.
StructValueMessage(node) == [set |-> TRUE, vals |-> <<PV("bytes", node)>>]
ToStructValue(v, ty) == jsonMarshal(v, ty)

\* wantEty of the list builder, for the element at position pos
listElemConstraint(wantTy, pos) ==
    IF wantTy.t = "dynamic" THEN DynamicPseudoType
    ELSE IF wantTy.t \in {"list", "set", "map"} THEN wantTy.e[1]
    ELSE wantTy.e[pos]

RECURSIVE structpbListElems(_, _, _, _)
structpbListElem(r, v, wantTy, pos, acc) ==
    IF ~r.ok THEN attrValueErrorf("%s", <<"marshal">>)
    ELSE structpbListElems(v, wantTy, pos + 1, Append(acc, PV("message", StructValueMessage(r.bytes))))
\* the loop over v.ElementIterator() of the list builder
structpbListElems(v, wantTy, pos, acc) ==
    IF pos > Len(v.v) THEN BuiltOk(PV("list", acc))
    ELSE IF wantTy.t \notin {"dynamic", "list", "set", "map", "tuple"} THEN BuiltPanic
    ELSE structpbListElem(ToStructValue(v.v[pos], listElemConstraint(wantTy, pos)), v, wantTy, pos, acc)

\* the builder of a repeated field, applied to v
structpbListBuild(v, wantTy) ==
    IF IsNull(v) THEN attrValueErrorf("must not be null", <<>>)
    ELSE IF ~IsKnown(v) THEN attrValueErrorf("value must be known", <<>>)
    ELSE IF v.ty.t \notin {"list", "set", "tuple"} THEN
        attrValueErrorf("a list, set, or tuple value is required", <<>>)
    ELSE IF wantTy.t = "tuple" /\ Len(wantTy.e) # Len(v.v) THEN
        attrValueErrorf("wrong number of elements (need %d)", <<Len(wantTy.e)>>)
    ELSE structpbListElems(v, wantTy, 1, <<>>)

\* wantEty of the map builder, for the element with key k
HasAttribute(ty, k) == \E i \in 1..Len(ty.e) : AttrName(ty.e[i]) = k
AttributeType(ty, k) == AttrType(ty.e[CHOOSE i \in 1..Len(ty.e) : AttrName(ty.e[i]) = k])
mapElemConstraint(wantTy, k) ==
    IF wantTy.t = "dynamic" THEN DynamicPseudoType
    ELSE IF wantTy.t = "map" THEN wantTy.e[1]
    ELSE AttributeType(wantTy, k)

RECURSIVE structpbMapElems(_, _, _, _)
structpbMapElem(r, v, wantTy, pos, acc) ==
    IF ~r.ok THEN attrValueErrorf("%s", <<"marshal">>)
    ELSE structpbMapElems(v, wantTy, pos + 1,
                          Append(acc, Entry(v.v[pos].k, PV("message", StructValueMessage(r.bytes)))))
\* the loop over v.ElementIterator() of the map builder, in key order
structpbMapElems(v, wantTy, pos, acc) ==
    IF pos > Len(v.v) THEN BuiltOk(PV("map", acc))
    ELSE IF wantTy.t \notin {"dynamic", "map", "object"} THEN BuiltPanic
    ELSE IF wantTy.t = "object" /\ ~HasAttribute(wantTy, v.v[pos].k) THEN
        attrValueErrorf("does not expect an attribute named %q", <<v.v[pos].k>>)
    ELSE structpbMapElem(ToStructValue(v.v[pos].v, mapElemConstraint(wantTy, v.v[pos].k)), v, wantTy, pos, acc)

\* the builder of a map field, applied to v
structpbMapBuild(v, wantTy) ==
    IF IsNull(v) THEN attrValueErrorf("must not be null", <<>>)
    ELSE IF ~IsKnown(v) THEN attrValueErrorf("value must be known", <<>>)
    ELSE IF v.ty.t \notin {"object", "map"} THEN attrValueErrorf("an object or map value is required", <<>>)
    ELSE structpbMapElems(v, wantTy, 1, <<>>)

\* the builder of a singular field, applied to v; its error is returned as
\* ToStructValue made it
structpbSingleBuilt(r) ==
    IF ~r.ok THEN BuiltError("error", schemaErrorf("", "%s", <<"marshal">>))
    ELSE BuiltOk(PV("message", StructValueMessage(r.bytes)))

\* structpbAttrMessageBuilder(desc, wantTy) and the call of the builder it
\* returns
structpbAttrMessageBuilder(f, wantTy, v) ==
    IF IsList(f) THEN
        IF wantTy.t \notin {"dynamic", "list", "set"}
        THEN BuiltSchemaError(f.FullName, "list field must have tuple, list, or set type constraint", <<>>)
        ELSE structpbListBuild(v, wantTy)
    ELSE IF IsMap(f) THEN
        IF wantTy.t \notin {"dynamic", "object", "map"}
        THEN BuiltSchemaError(f.FullName, "map field must have object or map type constraint", <<>>)
        ELSE structpbMapBuild(v, wantTy)
    ELSE structpbSingleBuilt(ToStructValue(v, wantTy))

getFieldAttrMessageBuilder(f, wantTy, v) ==
    IF IsMap(f) /\ f.keyKind # "string" THEN
        BuiltSchemaError(f.FullName, "HCL can only support maps with string keys", <<>>)
    ELSE IF f.kind # "message" THEN BuiltPanic
    ELSE IF f.message.FullName = structpbValueName THEN structpbAttrMessageBuilder(f, wantTy, v)
    ELSE BuiltSchemaError(f.FullName, "can't decode attribute into message type %s", <<f.message.FullName>>)

valueForMessageFieldTyped(wantTy, v, attr) ==
    IF HasErrors(wantTy.diags) THEN BuiltSchemaError(attr.TargetField.FullName, "invalid HCL type constraint", <<>>)
    ELSE getFieldAttrMessageBuilder(attr.TargetField, wantTy.ty, v)
valueForMessageField(v, attr) == valueForMessageFieldTyped(TypeConstraint(attr), v, attr)

\* isMessageField
isMessageField(attr) == attr.TargetField.kind = "message"

(***************************************************************************)
(* The methods of the two error types.  A text is the sequence of the      *)
(* parts fmt.Sprintf puts together; a call that never returns (the stack   *)
(* of the goroutine overflows) has out = "overflow".                       *)
(***************************************************************************)
Text(parts) == [out |-> "ok", parts |-> parts]
Overflow == [out |-> "overflow", parts |-> <<>>]
\* protoreflect.FullName.IsValid, over the names of the model
IsValidName(name) == name # ""
\* the wrapped error's Error(): the formatted reason
ReasonOf(err) == err.Err.format

\* schemaError.Error
schemaErrorError(err) ==
    IF err.Decl # "" /\ IsValidName(err.Decl)
    THEN Text(<<"unsupported protobuf schema: ", ReasonOf(err)>>)
    ELSE Text(<<"unsupported protobuf schema in ", err.Decl, ": ", ReasonOf(err)>>)

\* attrValueError.Error: `return err.Error()`, a call of itself
attrValueErrorError(err) == Overflow
\* attrValueError.Unwrap, then Error() of the path error it returns
attrValueErrorUnwrap(err) == Text(<<ReasonOf(err)>>)
\* attrValueError.Diagnostic: the detail, and the diagnostic
attrValueErrorDetail(err) == Text(<<"Inappropriate value for argument: ", ReasonOf(err), ".">>)
attrValueErrorDiagnostic(err) ==
    Diagnostic(unsuitableValueSummary, "Inappropriate value for argument: %s.", "")

\* Error(), Unwrap().Error() and attrErrorDiagnostic of the error of a result
ErrorOf(r) ==
    IF r.kind = "schemaError" THEN schemaErrorError(r.err)
    ELSE IF r.kind = "attrValueError" THEN attrValueErrorError(r.err)
    ELSE Text(<<ReasonOf(r.err)>>)
UnwrapOf(r) == IF r.kind = "attrValueError" THEN attrValueErrorUnwrap(r.err) ELSE Text(<<ReasonOf(r.err)>>)
DetailOf(r) ==
    IF r.kind = "schemaError"
    THEN Text(<<"Invalid HCL annotations in protobuf schema for ", r.err.Decl, ": ", ReasonOf(r.err), ".">>)
    ELSE attrValueErrorDetail(r.err)
attrErrorDiagnostic(r) ==
    IF r.kind = "schemaError" THEN schemaErrorDiagnostic(r.err) ELSE attrValueErrorDiagnostic(r.err)

(***************************************************************************)
(* SpecDecode: DecodeBody on a body and a descriptor, ObjectValueForMessage *)
(* on the decoded message, and DecodeBody again on a body that sets each   *)
(* attribute to its reflected value.  The inputs come in fourteen families.     *)
(***************************************************************************)
MaxElems  == 2        \* elements of a tuple or object given to a repeated or map attribute
MaxBlocks == 2        \* blocks in a body
MaxDepth  == 2        \* Flatten fields nested inside one another

AttrBody(name, val) == Body(<<Attribute(name, Expr(val))>>, <<>>)
NumberInputs == [i \in 1..Len(NumberLiterals) |-> NumberLiterals[i].v] \o <<PositiveInfinity, NegativeInfinity>>

\* Family 1: one attribute on an integer field, set to a number.
WithNumberAttr(kind) == Named("test.WithNumberAttr", <<AttrField("num", FALSE, kind, "single", "", "NOT_RAW")>>)
InitNumbers ==
    \E kind \in IntegerKinds, i \in 1..Len(NumberInputs) :
        /\ desc = WithNumberAttr(kind)
        /\ body = AttrBody("num", NumberVal(NumberInputs[i]))
        /\ mapOrder = "ascending"

\* Family 2: one attribute on a singular, repeated or map field, set to a
\* tuple or object of at most MaxElems elements (its first element for a
\* singular field), to a value that is no collection, or to an expression
\* that fails.
ElemInputs ==
    << NumberVal(NumberInputs[2]), NumberVal(NumberInputs[4]), StringVal("x"),
       UnknownVal(TyNumber), NullVal(TyNumber) >>
TopInputs == << Expr(NullVal(DynamicPseudoType)), Expr(UnknownVal(DynamicPseudoType)), Expr(StringVal("x")),
                FailingExpr >>
CollectionKinds == {"int32", "string", "bool"}
WithCollectionAttr(kind, card, required) ==
    Named("test.WithCollectionAttr", <<AttrField("nums", required, kind, card, "", "NOT_RAW")>>)
CollectionValue(card, elems) ==
    IF card = "single" THEN ElemInputs[elems[1]]
    ELSE IF card = "list" THEN TupleVal([i \in 1..Len(elems) |-> ElemInputs[elems[i]]])
    ELSE ObjectVal([i \in 1..Len(elems) |-> Entry(NameOrder[i], ElemInputs[elems[i]])])
InitCollections ==
    \E kind \in CollectionKinds, card \in {"single", "list", "map"}, required \in BOOLEAN :
        /\ desc = WithCollectionAttr(kind, card, required)
        /\ \/ \E elems \in SeqsUpTo(1..Len(ElemInputs), MaxElems) :
                 /\ card = "single" => Len(elems) = 1
                 /\ body = Body(<<Attribute("nums", Expr(CollectionValue(card, elems)))>>, <<>>)
           \/ \E i \in 1..Len(TopInputs) : body = Body(<<Attribute("nums", TopInputs[i])>>, <<>>)
           \/ body = EmptyBody
        /\ mapOrder \in {"ascending", "descending"}

\* Family 3: a repeated block type "a" with one label, alone or beside a
\* singleton block type "b", and a body of at most MaxBlocks blocks.
WithNestedBlocks(kind, withSingleton) ==
    Named("test.WithNestedBlocks",
          <<BlockField("a", "list", kind, WithOneBlockLabel)>>
          \o (IF withSingleton THEN <<BlockField("b", "single", "AUTO", WithStringAttr)>> ELSE <<>>))
BlockInputs ==
    << Block("a", <<"x">>, AttrBody("nickname", StringVal("n"))),
       Block("a", <<"y">>, EmptyBody),
       Block("b", <<>>, AttrBody("name", StringVal("n"))),
       Block("a", <<>>, EmptyBody) >>
InitBlocks ==
    \E kind \in {"AUTO", "LIST", "TUPLE"}, withSingleton \in BOOLEAN,
       blocks \in SeqsUpTo(1..Len(BlockInputs), MaxBlocks) :
        /\ desc = WithNestedBlocks(kind, withSingleton)
        /\ body = Body(<<>>, [i \in 1..Len(blocks) |-> BlockInputs[blocks[i]]])
        /\ mapOrder = "ascending"

\* Family 4: descriptors whose body schema is a schema error: two
\* attributes of one name, an attribute that is also a block type, a
\* tagged-union group, a block label named like an attribute.
InvalidDescs ==
    << Named("test.Collision", <<AttrField("a", FALSE, "string", "single", "", "NOT_RAW"),
                                 AttrField("a", FALSE, "string", "single", "", "NOT_RAW")>>),
       Named("test.Contradiction",
             <<[AttrField("a", FALSE, "string", "single", "", "NOT_RAW") EXCEPT !.block = BlockOpts("b", "AUTO")]>>),
       [Named("test.Union", <<AttrField("a", FALSE, "string", "single", "", "NOT_RAW")>>)
           EXCEPT !.Oneofs = <<[FullName |-> "test.Union.u", IsSynthetic |-> FALSE]>>],
       Named("test.BlockCollision", <<BlockField("b", "single", "AUTO", WithStringAttr),
                                      BlockField("b", "list", "AUTO", WithStringAttr)>>) >>
InitInvalid ==
    \E i \in 1..Len(InvalidDescs), b \in 1..3 :
        /\ desc = InvalidDescs[i]
        /\ body = IF b = 1 THEN EmptyBody
                  ELSE IF b = 2 THEN AttrBody("a", StringVal("x"))
                  ELSE Body(<<>>, <<BlockInputs[3]>>)
        /\ mapOrder = "ascending"

\* Family 5: string attributes spread over Flatten fields nested depth
\* deep; the body sets each attribute to "x", to "y", to null or not at all.
FlattenNames == <<"name", "species", "breed", "nickname">>
RECURSIVE WithFlatten(_)
WithFlatten(depth) ==
    IF depth = 0 THEN WithStringAttr
    ELSE Named("test.WithFlatten",
               <<FlattenField(WithFlatten(depth - 1)),
                 AttrField(FlattenNames[depth + 1], FALSE, "string", "single", "", "NOT_RAW")>>)
FlattenInputs == <<StringVal("x"), StringVal("y"), NullVal(TyString)>>
FlattenBody(choice) ==
    LET Chosen(i) == choice[i] # 0
        set == SelectSeq([i \in 1..Len(choice) |-> i], Chosen) IN
    Body([j \in 1..Len(set) |-> Attribute(FlattenNames[set[j]], Expr(FlattenInputs[choice[set[j]]]))], <<>>)
InitFlatten ==
    \E depth \in 0..MaxDepth :
        \E choice \in [1..(depth + 1) -> 0..Len(FlattenInputs)] :
            /\ desc = WithFlatten(depth)
            /\ body = FlattenBody(choice)
            /\ mapOrder = "ascending"

\* Family 6: one raw attribute with a type constraint, set to a value.
RawTypes == {"any", "string", "number", "list(string)", "map(number)"}
RawInputs ==
    << StringVal("x"), StringVal("1"), NumberVal(NumberInputs[2]), NumberVal(NumberInputs[4]),
       NumberVal(PositiveInfinity), BoolVal(TRUE),
       NullVal(DynamicPseudoType), NullVal(TyString), NullVal(TyList(TyString)),
       UnknownVal(DynamicPseudoType), UnknownVal(TyString),
       TupleVal(<<>>), TupleVal(<<StringVal("x")>>), TupleVal(<<StringVal("x"), UnknownVal(TyString)>>),
       TupleVal(<<StringVal("x"), NullVal(TyString)>>), ListVal(<<StringVal("x"), StringVal("y")>>),
       ObjectVal(<<>>), ObjectVal(<<Entry("a", NumberVal(NumberInputs[2]))>>),
       ObjectVal(<<Entry("a", NumberVal(NumberInputs[2])), Entry("b", StringVal("1"))>>),
       MapVal(<<Entry("a", NumberVal(NumberInputs[4])), Entry("b", NumberVal(NegativeInfinity))>>) >>
WithRawAttr(type, mode, required) ==
    Named("test.WithRawAttr", <<AttrField("raw", required, "bytes", "single", type, mode)>>)
InitRaw ==
    \E type \in RawTypes, mode \in {"JSON", "MESSAGEPACK"}, required \in BOOLEAN, i \in 1..Len(RawInputs) :
        /\ desc = WithRawAttr(type, mode, required)
        /\ body = AttrBody("raw", RawInputs[i])
        /\ mapOrder = "ascending"

\* Family 7: a singleton block type "b" and a body of at most MaxDuplicates
\* blocks of that type, one of them with an expression that fails.
MaxDuplicates == 3
WithSingletonBlock == Named("test.WithSingletonBlock", <<BlockField("b", "single", "AUTO", WithStringAttr)>>)
DuplicateInputs ==
    << Block("b", <<>>, AttrBody("name", StringVal("n"))),
       Block("b", <<>>, AttrBody("name", StringVal("m"))),
       Block("b", <<>>, Body(<<Attribute("name", FailingExpr)>>, <<>>)) >>
InitDuplicates ==
    \E blocks \in SeqsUpTo(1..Len(DuplicateInputs), MaxDuplicates) :
        /\ desc = WithSingletonBlock
        /\ body = Body(<<>>, [i \in 1..Len(blocks) |-> DuplicateInputs[blocks[i]]])
        /\ mapOrder = "ascending"

\* Family 8: two fields A and B in either order.  A is the required int32
\* attribute "num" or the singleton block type "b"; B is the string
\* attribute "species" or the singleton block type "c".  The body gives A
\* a valid input or one with a value error, and gives B an input or none.
FieldA(isBlock) ==
    IF isBlock THEN BlockField("b", "single", "AUTO", WithStringAttr)
    ELSE AttrField("num", TRUE, "int32", "single", "", "NOT_RAW")
FieldB(isBlock) ==
    IF isBlock THEN BlockField("c", "single", "AUTO", WithOneBlockLabel)
    ELSE AttrField("species", FALSE, "string", "single", "", "NOT_RAW")
WithTwoFields(aIsBlock, bIsBlock, aFirst) ==
    Named("test.WithTwoFields",
          IF aFirst THEN <<FieldA(aIsBlock), FieldB(bIsBlock)>> ELSE <<FieldB(bIsBlock), FieldA(aIsBlock)>>)
ValidNum == Expr(NumberVal(NumberLiterals[2].v))
NumInputs ==
    << ValidNum, FailingExpr, Expr(StringVal("x")), Expr(NumberVal(NumberLiterals[7].v)),
       Expr(NumberVal(NumberLiterals[4].v)), Expr(NullVal(TyNumber)) >>
SpeciesInputs == <<StringVal("x"), StringVal("y")>>
TwoFieldsBody(aIsBlock, bIsBlock, a, b) ==
    Body((IF aIsBlock THEN <<>> ELSE <<Attribute("num", NumInputs[a])>>)
         \o (IF bIsBlock \/ b = 0 THEN <<>> ELSE <<Attribute("species", Expr(SpeciesInputs[b]))>>),
         (IF aIsBlock THEN SubSeq(DuplicateInputs, 1, a) ELSE <<>>)
         \o (IF bIsBlock /\ b # 0 THEN <<Block("c", <<SpeciesInputs[b].v>>, AttrBody("nickname", StringVal("n")))>>
             ELSE <<>>))
InitTwoFields ==
    \E aIsBlock \in BOOLEAN, bIsBlock \in BOOLEAN, aFirst \in BOOLEAN, b \in 0..Len(SpeciesInputs) :
        \E a \in 1..(IF aIsBlock THEN Len(DuplicateInputs) ELSE Len(NumInputs)) :
            /\ desc = WithTwoFields(aIsBlock, bIsBlock, aFirst)
            /\ body = TwoFieldsBody(aIsBlock, bIsBlock, a, b)
            /\ mapOrder = "ascending"

\* Family 9: one attribute "a" whose annotation is a schema problem that
\* shows when a value is decoded into it: a type expression that is not
\* one, a field of message kind with and without a declared type, a raw
\* field without a type expression.
MistypedDescs ==
    << Named("test.BadTypeExpr", <<AttrField("a", FALSE, "string", "single", "nonsense", "NOT_RAW")>>),
       Named("test.MessageKind", <<AttrField("a", FALSE, "message", "single", "", "NOT_RAW")>>),
       Named("test.MessageKindTyped", <<AttrField("a", FALSE, "message", "single", "string", "NOT_RAW")>>),
       Named("test.RawUntyped", <<AttrField("a", FALSE, "bytes", "single", "", "JSON")>>) >>
InitMistyped ==
    \E i \in 1..Len(MistypedDescs), given \in BOOLEAN :
        /\ desc = MistypedDescs[i]
        /\ body = IF given THEN AttrBody("a", StringVal("x")) ELSE EmptyBody
        /\ mapOrder = "ascending"

\* Family 10: one attribute "a" on a singular, repeated or map field of
\* message kind, whose target is google.protobuf.Value or another message
\* type, with a declared type constraint, set to a value.
MessageTargets == <<StructpbValue, WithStringAttr>>
MessageField(card, target, type) ==
    [AttrField("a", FALSE, "message", card, type, "NOT_RAW") EXCEPT !.message = MessageTargets[target]]
MessageInputs ==
    << StringVal("x"), NullVal(DynamicPseudoType), UnknownVal(TyString),
       TupleVal(<<>>), TupleVal(<<StringVal("x")>>),
       TupleVal(<<StringVal("x"), NumberVal(NumberLiterals[2].v)>>),
       TupleVal(<<StringVal("x"), UnknownVal(TyString)>>),
       ListVal(<<StringVal("x"), StringVal("y")>>), SetVal(<<StringVal("y"), StringVal("x")>>),
       ObjectVal(<<Entry("a", StringVal("x"))>>),
       MapVal(<<Entry("a", StringVal("x")), Entry("b", StringVal("y"))>>) >>
WithMessageField(card, target, type) == Named("test.WithMessageField", <<MessageField(card, target, type)>>)
InitMessageAttrs ==
    \E card \in {"single", "list", "map"}, target \in 1..Len(MessageTargets),
       type \in {"any", "string", "list(string)", "map(string)"}, i \in 1..Len(MessageInputs) :
        /\ desc = WithMessageField(card, target, type)
        /\ body = AttrBody("a", MessageInputs[i])
        /\ mapOrder = "ascending"

\* Family 11: one attribute "l" on a repeated string field whose type
\* constraint is inferred or declared as a list or a set of strings, set to
\* a tuple of at most MaxSeqLen strings, with duplicates and in any order.
MaxSeqLen == 3
SequenceTypes == {"", "list(string)", "set(string)"}
SequenceStrings == <<StringVal("x"), StringVal("y")>>
WithStringSeqAttr(type) == Named("test.WithStringSeqAttr", <<AttrField("l", FALSE, "string", "list", type, "NOT_RAW")>>)
InitSequences ==
    \E type \in SequenceTypes, elems \in SeqsUpTo(1..Len(SequenceStrings), MaxSeqLen) :
        /\ desc = WithStringSeqAttr(type)
        /\ body = AttrBody("l", TupleVal([i \in 1..Len(elems) |-> SequenceStrings[elems[i]]]))
        /\ mapOrder = "ascending"

\* Family 12: one attribute "a" on a singular field of each scalar kind the
\* physical constraints accept, set to a boolean, a whole number or a string.
ScalarKinds == {"bool", "string", "float", "double"} \cup IntegerKinds
ScalarInputs == <<BoolVal(TRUE), NumberVal(NumberLiterals[2].v), StringVal("1"), StringVal("x")>>
WithScalarAttr(kind) == Named("test.WithScalarAttr", <<AttrField("a", FALSE, kind, "single", "", "NOT_RAW")>>)
InitScalars ==
    \E kind \in ScalarKinds, i \in 1..Len(ScalarInputs) :
        /\ desc = WithScalarAttr(kind)
        /\ body = AttrBody("a", ScalarInputs[i])
        /\ mapOrder = "ascending"

\* Family 13: a singleton or repeated block type "a" whose message has two
\* labels around an attribute, no label, or a label on an int32 field, and
\* a body of at most MaxBlocks blocks "a" with zero to three labels.
LabelledChildren ==
    << Named("test.WithTwoLabels",
             <<LabelField("name"), AttrField("nickname", FALSE, "string", "single", "", "NOT_RAW"),
               LabelField("species")>>),
       Named("test.WithNoLabel", <<AttrField("nickname", FALSE, "string", "single", "", "NOT_RAW")>>),
       Named("test.WithNumberLabel", <<[LabelField("name") EXCEPT !.kind = "int32"]>>) >>
LabelInputs == << <<>>, <<"x">>, <<"x", "y">>, <<"y", "x">>, <<"x", "y", "x">> >>
WithLabelledBlocks(card, c) == Named("test.WithLabelledBlocks", <<BlockField("a", card, "AUTO", LabelledChildren[c])>>)
InitLabels ==
    \E card \in {"single", "list"}, c \in 1..Len(LabelledChildren),
       blocks \in SeqsUpTo(1..Len(LabelInputs), MaxBlocks) :
        /\ desc = WithLabelledBlocks(card, c)
        /\ body = Body(<<>>, [i \in 1..Len(blocks) |-> Block("a", LabelInputs[blocks[i]], EmptyBody)])
        /\ mapOrder = "ascending"

\* Family 14: the repeated or map int32 attribute "nums" and the repeated
\* block type "a" with the int32 attribute "num", in either order.  The
\* attribute has at most MaxElems elements and the body at most MaxBlocks
\* blocks; each number is 1, 1.5 (not whole) or 2^31 (out of range).
OrderedInputs == <<NumberVal(NumberLiterals[2].v), NumberVal(NumberLiterals[4].v), NumberVal(NumberLiterals[7].v)>>
OrderedAttr(card) == AttrField("nums", FALSE, "int32", card, "", "NOT_RAW")
OrderedChild == Named("test.WithOptionalNumber", <<AttrField("num", FALSE, "int32", "single", "", "NOT_RAW")>>)
WithOrdered(card, attrFirst) ==
    Named("test.WithOrdered",
          IF attrFirst THEN <<OrderedAttr(card), BlockField("a", "list", "AUTO", OrderedChild)>>
          ELSE <<BlockField("a", "list", "AUTO", OrderedChild), OrderedAttr(card)>>)
OrderedValue(card, elems) ==
    IF card = "list" THEN TupleVal([i \in 1..Len(elems) |-> OrderedInputs[elems[i]]])
    ELSE ObjectVal([i \in 1..Len(elems) |-> Entry(NameOrder[i], OrderedInputs[elems[i]])])
InitOrdered ==
    \E card \in {"list", "map"}, attrFirst \in BOOLEAN,
       elems \in SeqsUpTo(1..Len(OrderedInputs), MaxElems),
       blocks \in SeqsUpTo(1..Len(OrderedInputs), MaxBlocks) :
        /\ desc = WithOrdered(card, attrFirst)
        /\ body = Body(<<Attribute("nums", Expr(OrderedValue(card, elems)))>>,
                       [i \in 1..Len(blocks) |-> Block("a", <<>>, AttrBody("num", OrderedInputs[blocks[i]]))])
        /\ mapOrder \in {"ascending", "descending"}

InitDecode ==
    /\ pc = "start"
    /\ \/ InitNumbers \/ InitCollections \/ InitBlocks \/ InitInvalid \/ InitFlatten \/ InitRaw
       \/ InitDuplicates \/ InitTwoFields \/ InitMistyped \/ InitMessageAttrs \/ InitSequences
       \/ InitScalars \/ InitLabels \/ InitOrdered
    /\ field = None /\ msg = None
    /\ elemRes = None /\ schemaRes = None /\ decodeRes = None
    /\ valueRes = None /\ typeRes = None /\ again = None /\ builtRes = None

CallDecodeBody ==
    /\ pc = "start"
    /\ decodeRes' = DecodeBody(body, desc)
    /\ msg' = decodeRes'.msg
    /\ pc' = "decoded"
    /\ UNCHANGED <<field, desc, body, elemRes, schemaRes, valueRes, typeRes, again, mapOrder, builtRes>>

CallObjectValueForMessage ==
    /\ pc = "decoded"
    /\ decodeRes.out # "panic"
    /\ valueRes' = ObjectValueForMessage(msg, desc)
    /\ pc' = "reflected"
    /\ UNCHANGED <<field, desc, body, msg, elemRes, schemaRes, decodeRes, typeRes, again, mapOrder, builtRes>>

\* The body that sets every attribute of the descriptor's schema to the
\* value the reflected object has for it.
RECURSIVE ReflectedAttributes(_, _)
ReflectedAttributes(entries, attrs) ==
    IF Len(entries) = 0 THEN <<>>
    ELSE (IF HasName(attrs, Head(entries).k)
          THEN <<Attribute(Head(entries).k, Expr(Head(entries).v))>> ELSE <<>>)
         \o ReflectedAttributes(Tail(entries), attrs)
ReflectedBody(obj, d) == Body(ReflectedAttributes(obj.v, bodySchema(d).schema.Attributes), <<>>)

CallDecodeBodyAgain ==
    /\ pc = "reflected"
    /\ valueRes.out = "ok"
    /\ again' = DecodeBody(ReflectedBody(valueRes.val, desc), desc)
    /\ pc' = "done"
    /\ UNCHANGED <<field, desc, body, msg, elemRes, schemaRes, decodeRes, valueRes, typeRes, mapOrder, builtRes>>

\* The Go runtime starts each range over a map at a place of its own
\* choosing: the order of the next run is any.
SeedMapOrder ==
    /\ pc = "decoded"
    /\ mapOrder' \in {"ascending", "descending"}
    /\ pc' = "seeded"
    /\ UNCHANGED <<field, desc, body, msg, elemRes, schemaRes, decodeRes, valueRes, typeRes, again, builtRes>>

\* A second run of DecodeBody on the same body and descriptor.
CallDecodeBodyRerun ==
    /\ pc = "seeded"
    /\ again' = DecodeBody(body, desc)
    /\ pc' = "rerun"
    /\ UNCHANGED <<field, desc, body, msg, elemRes, schemaRes, decodeRes, valueRes, typeRes, mapOrder, builtRes>>

NextDecode ==
    \/ CallDecodeBody \/ CallObjectValueForMessage \/ CallDecodeBodyAgain
    \/ SeedMapOrder \/ CallDecodeBodyRerun
SpecDecode == InitDecode /\ [][NextDecode]_vars

(***************************************************************************)
(* SpecReflect: ObjectValueForMessage and then                             *)
(* ObjectTypeConstraintForMessageDesc on messages an application built     *)
(* itself: one block type "a" (a singleton, or a repeated field of each    *)
(* collection kind) over four child message types, holding at most         *)
(* MaxBlocks child messages.                                               *)
(***************************************************************************)
WithRawAny == Named("test.WithRawAny", <<AttrField("raw", FALSE, "bytes", "single", "any", "JSON")>>)
WithMessageAttr == Named("test.WithMessageAttr", <<AttrField("name", FALSE, "message", "single", "", "NOT_RAW")>>)
ChildDescs == <<WithStringAttr, WithOneBlockLabel, WithRawAny, WithMessageAttr>>

\* The messages of a child type that the reflected messages are built from.
MessageOf(vals) == [set |-> TRUE, vals |-> vals]
ChildMessages(c) ==
    IF c = 1 THEN <<MessageOf(<<PV("string", "x")>>), MessageOf(<<PV("string", "")>>)>>
    ELSE IF c = 2 THEN <<MessageOf(<<PV("string", "x"), PV("string", "n")>>),
                         MessageOf(<<PV("string", "y"), PV("string", "")>>)>>
    ELSE IF c = 3 THEN <<MessageOf(<<PV("bytes", jsonMarshal(StringVal("x"), DynamicPseudoType).bytes)>>),
                         MessageOf(<<PV("bytes", jsonMarshal(BoolVal(TRUE), DynamicPseudoType).bytes)>>)>>
    ELSE <<MessageOf(<<PV("message", MessageOf(<<>>))>>),
           MessageOf(<<PV("message", [set |-> FALSE, vals |-> <<>>])>>)>>

WithBlockOf(card, kind, c) == Named("test.WithBlockOf", <<BlockField("a", card, kind, ChildDescs[c])>>)

\* Messages with one block field: a singleton, or a repeated field of each
\* collection kind holding at most MaxBlocks children.
InitReflectBlocks ==
    \E c \in 1..Len(ChildDescs) :
        \/ /\ desc = WithBlockOf("single", "AUTO", c)
           /\ \E i \in 1..2 : msg = MessageOf(<<PV("message", ChildMessages(c)[i])>>)
        \/ \E kind \in {"AUTO", "TUPLE", "LIST", "SET"}, ms \in SeqsUpTo(1..2, MaxBlocks) :
              /\ desc = WithBlockOf("list", kind, c)
              /\ msg = MessageOf(<<PV("list", [i \in 1..Len(ms) |-> PV("message", ChildMessages(c)[ms[i]])])>>)

\* Messages with one attribute that is not raw: a singular, repeated or map
\* field of a kind, with or without a declared type constraint, storing at
\* most MaxElems values.
StoredStrings == <<"x", "1", "-1">>
StoredNumbers == <<NumberLiterals[2].v, NumberLiterals[3].v, NumberLiterals[1].v>>
AttrShapes ==
    << <<"string", "single", "">>, <<"string", "single", "number">>,
       <<"string", "list", "">>, <<"string", "list", "set(string)">>, <<"string", "list", "list(number)">>,
       <<"string", "map", "">>, <<"string", "map", "map(number)">>,
       <<"int32", "single", "">>, <<"int32", "list", "">>, <<"uint64", "list", "set(string)">>,
       <<"bool", "single", "">>, <<"bool", "map", "">> >>
WithStoredAttr(shape) ==
    Named("test.WithStoredAttr", <<AttrField("nums", FALSE, shape[1], shape[2], shape[3], "NOT_RAW")>>)
StoredScalar(kind, e) ==
    IF kind = "string" THEN PV("string", StoredStrings[e])
    ELSE IF kind = "bool" THEN PV("bool", e = 1)
    ELSE PV(GoType(kind), StoredNumbers[IF kind = "uint64" /\ e = 2 THEN 3 ELSE e])
StoredValue(shape, elems) ==
    IF shape[2] = "single" THEN StoredScalar(shape[1], elems[1])
    ELSE IF shape[2] = "list" THEN PV("list", [i \in 1..Len(elems) |-> StoredScalar(shape[1], elems[i])])
    ELSE PV("map", [i \in 1..Len(elems) |-> Entry(NameOrder[i], StoredScalar(shape[1], elems[i]))])
InitReflectAttrs ==
    \E s \in 1..Len(AttrShapes), elems \in SeqsUpTo(1..Len(StoredStrings), MaxElems) :
        /\ AttrShapes[s][2] = "single" => Len(elems) = 1
        /\ desc = WithStoredAttr(AttrShapes[s])
        /\ msg = MessageOf(<<StoredValue(AttrShapes[s], elems)>>)

\* Messages with string attributes spread over Flatten fields nested depth
\* deep, as DecodeBody makes them.
InitReflectFlatten ==
    \E depth \in 0..MaxDepth :
        \E choice \in [1..(depth + 1) -> 0..Len(FlattenInputs)] :
            /\ desc = WithFlatten(depth)
            /\ msg = DecodeBody(FlattenBody(choice), WithFlatten(depth)).msg

InitReflect ==
    /\ pc = "decoded"
    /\ InitReflectBlocks \/ InitReflectAttrs \/ InitReflectFlatten
    /\ body = EmptyBody /\ mapOrder = "ascending"
    /\ field = None /\ elemRes = None /\ schemaRes = None /\ decodeRes = None
    /\ valueRes = None /\ typeRes = None /\ again = None /\ builtRes = None

CallObjectTypeConstraintForMessageDesc ==
    /\ pc = "reflected"
    /\ typeRes' = ObjectTypeConstraintForMessageDesc(desc)
    /\ pc' = "typed"
    /\ UNCHANGED <<field, desc, body, msg, elemRes, schemaRes, decodeRes, valueRes, again, mapOrder, builtRes>>

NextReflect == CallObjectValueForMessage \/ CallObjectTypeConstraintForMessageDesc
SpecReflect == InitReflect /\ [][NextReflect]_vars

(***************************************************************************)
(* SpecBuilder: valueForMessageField on an attribute of message kind and a *)
(* value, and then the methods of the error it returned.                   *)
(***************************************************************************)
BuilderTypes ==
    {"", "any", "string", "list(string)", "set(string)", "map(string)", "tuple([string, number])", "nonsense"}
InitBuilder ==
    /\ pc = "start"
    /\ \E card \in {"single", "list", "map"}, target \in 1..Len(MessageTargets), type \in BuilderTypes :
          field = [MessageField(card, target, type) EXCEPT !.FullName = "test.M.f"]
    /\ \E i \in 1..Len(MessageInputs) : body = AttrBody("a", MessageInputs[i])
    /\ desc = NoDesc /\ msg = None /\ mapOrder = "ascending"
    /\ elemRes = None /\ schemaRes = None /\ decodeRes = None
    /\ valueRes = None /\ typeRes = None /\ again = None /\ builtRes = None

CallValueForMessageField ==
    /\ pc = "start"
    /\ builtRes' = valueForMessageField(body.Attributes[1].Expr.val, GetFieldElem(field).elem)
    /\ pc' = "built"
    /\ UNCHANGED <<field, desc, body, msg, elemRes, schemaRes, decodeRes, valueRes, typeRes, again, mapOrder>>

\* Error(), Unwrap() and attrErrorDiagnostic on the error that was returned
CallError ==
    /\ pc = "built"
    /\ builtRes.out = "error"
    /\ builtRes' = [builtRes EXCEPT !.message = ErrorOf(builtRes), !.unwrapped = UnwrapOf(builtRes),
                                     !.detail = DetailOf(builtRes), !.diag = attrErrorDiagnostic(builtRes)]
    /\ pc' = "described"
    /\ UNCHANGED <<field, desc, body, msg, elemRes, schemaRes, decodeRes, valueRes, typeRes, again, mapOrder>>

NextBuilder == CallValueForMessageField \/ CallError
SpecBuilder == InitBuilder /\ [][NextBuilder]_vars

(***************************************************************************)
(* Claims about DecodeBody.                                                *)
(***************************************************************************)
\* Equality of documents, of protoreflect values and of cty values, decided
\* on the tags before the payloads.
RECURSIVE NodeEq(_, _)
NodeEq(a, b) ==
    /\ a.j = b.j
    /\ IF a.j = "array" THEN
           /\ Len(a.v) = Len(b.v)
           /\ \A i \in 1..Len(a.v) : NodeEq(a.v[i], b.v[i])
       ELSE IF a.j = "object" THEN
           /\ Len(a.v) = Len(b.v)
           /\ \A i \in 1..Len(a.v) : a.v[i].k = b.v[i].k /\ NodeEq(a.v[i].v, b.v[i].v)
       ELSE a.v = b.v
RECURSIVE PvEq(_, _)
PvEq(a, b) ==
    /\ a.g = b.g
    /\ IF a.g = "bytes" THEN NodeEq(a.v, b.v)
       ELSE IF a.g = "list" THEN
           /\ Len(a.v) = Len(b.v)
           /\ \A i \in 1..Len(a.v) : PvEq(a.v[i], b.v[i])
       ELSE IF a.g = "map" THEN
           /\ Len(a.v) = Len(b.v)
           /\ \A i \in 1..Len(a.v) : a.v[i].k = b.v[i].k /\ PvEq(a.v[i].v, b.v[i].v)
       ELSE IF a.g = "message" THEN
           /\ a.v.set = b.v.set
           /\ Len(a.v.vals) = Len(b.v.vals)
           /\ \A i \in 1..Len(a.v.vals) : PvEq(a.v.vals[i], b.v.vals[i])
       ELSE a.v = b.v
MsgEq(a, b) == PvEq(PV("message", a), PV("message", b))
ValEq(a, b) == a.st = b.st /\ a.ty = b.ty /\ a.v = b.v

\* The top-level fields of desc that resolve to the given element kind.
FieldsOfKind(k) ==
    {i \in 1..Len(desc.Fields) : GetFieldElem(desc.Fields[i]).out = "ok" /\ GetFieldElem(desc.Fields[i]).elem.k = k}

\* One child message per block of the type, in source order, each decoded
\* from the block's body with its labels bound.
RECURSIVE ChildrenOf(_, _, _)
ChildrenOf(blocks, elem, pos) ==
    IF pos > Len(blocks) THEN <<>>
    ELSE (IF blocks[pos].Type = elem.TypeName
          THEN <<PV("message", newMessageForBlock(blocks[pos], elem).msg)>> ELSE <<>>)
         \o ChildrenOf(blocks, elem, pos + 1)

\* C1: after DecodeBody returns, the list of every repeated NestedBlock
\* field holds exactly one child message per block of its type in the
\* extracted content, in source order, each decoded from the block's body
\* with its labels bound; blocks of other types contribute nothing.
C1_RepeatedBlocksDecoded ==
    (pc # "start" /\ decodeRes.out = "ok") =>
        \A i \in FieldsOfKind("FieldNestedBlockType") :
            GetFieldElem(desc.Fields[i]).elem.Repeated =>
                PvEq(msg.vals[i], PV("list", ChildrenOf(Content(body, bodySchema(desc)).content.Blocks,
                                                        GetFieldElem(desc.Fields[i]).elem, 1)))

\* C2: when bodySchema(desc) fails with a schema error, DecodeBody reports
\* that error as a diagnostic and returns normally with a valid message of
\* the descriptor's type in which no field is populated.
C2_SchemaErrorReported ==
    (pc # "start" /\ bodySchema(desc).out = "error") =>
        /\ decodeRes.out = "ok"
        /\ \E k \in 1..Len(decodeRes.diags) : decodeRes.diags[k] = schemaErrorDiagnostic(bodySchema(desc).err)
        /\ MsgEq(decodeRes.msg, newMessageMaybeDynamic(desc))

\* The value a body gives an attribute, and that value after the two
\* conversions of the decoder (to the attribute's type constraint, then to
\* the physical constraint of the field).
InputOf(elem) == ByName(body.Attributes, elem.Name).Expr
ToConstraint(elem) == Convert(InputOf(elem).val, TypeConstraint(elem).ty)
ToPhysical(f, elem) ==
    Convert(ToConstraint(elem).val, valuePhysicalConstraintForFieldKind(ToConstraint(elem).val.ty, f).ty)
HasConverted(f, elem) ==
    /\ HasName(body.Attributes, elem.Name) /\ ~InputOf(elem).fails
    /\ ~HasErrors(TypeConstraint(elem).diags)
    /\ ToConstraint(elem).ok /\ ~IsNull(ToConstraint(elem).val)
    /\ ToPhysical(f, elem).ok

\* pv is the complete encoding of the converted value: every element of a
\* sequence, every entry of a mapping, or the one value of a singular field.
IsComplete(pv, f, elem) ==
    /\ HasConverted(f, elem)
    /\ LET val == ToPhysical(f, elem).val IN
       IF IsList(f) THEN
           /\ pv.g = "list" /\ IsSequenceTy(val.ty) /\ Len(pv.v) = Len(val.v)
           /\ \A j \in 1..Len(val.v) : PvEq(pv.v[j], protoValueForSingletonField(val.v[j], elem.Name, f).pv)
       ELSE IF IsMap(f) THEN
           /\ pv.g = "map" /\ IsMappingTy(val.ty) /\ Len(pv.v) = Len(val.v)
           /\ \A j \in 1..Len(val.v) :
                 /\ pv.v[j].k = val.v[j].k
                 /\ PvEq(pv.v[j].v, protoValueForSingletonFieldKind(val.v[j].v, elem.Name, MapValue(f)).pv)
       ELSE PvEq(pv, protoValueForSingletonField(val, elem.Name, f).pv)

\* An error diagnostic about the attribute: it points at the attribute, it
\* names the declaring field, or it reports that the value cannot be stored.
ErrorAbout(f, elem) ==
    \E k \in 1..Len(decodeRes.diags) :
        /\ decodeRes.diags[k].Severity = "error"
        /\ \/ decodeRes.diags[k].Subject = elem.Name
           \/ decodeRes.diags[k].Decl = f.FullName
           \/ decodeRes.diags[k].Summary = "Internal error while decoding configuration"

\* C5: after DecodeBody returns, whatever the diagnostics, every Attribute
\* field of the message is either unset or holds the complete converted
\* value of its attribute, never only the elements that converted; a field
\* whose value produced an error diagnostic is unset.
C5_AttributeUnsetOrComplete ==
    (pc # "start" /\ decodeRes.out = "ok") =>
        \A i \in FieldsOfKind("FieldAttribute") :
            /\ \/ PvEq(msg.vals[i], DefaultValue(desc.Fields[i]))
               \/ IsComplete(msg.vals[i], desc.Fields[i], GetFieldElem(desc.Fields[i]).elem)
            /\ ErrorAbout(desc.Fields[i], GetFieldElem(desc.Fields[i]).elem)
                   => PvEq(msg.vals[i], DefaultValue(desc.Fields[i]))

\* A repeated attribute given two elements of which one is no whole number:
\* DecodeBody returned with the error and left the field empty.
C5_Witness ==
    /\ pc = "decoded" /\ decodeRes.out = "ok"
    /\ desc.FullName = "test.WithCollectionAttr" /\ IsList(desc.Fields[1]) /\ desc.Fields[1].kind = "int32"
    /\ Len(body.Attributes) = 1 /\ ~body.Attributes[1].Expr.fails
    /\ body.Attributes[1].Expr.val.st = "known" /\ body.Attributes[1].Expr.val.ty.t = "tuple"
    /\ Len(body.Attributes[1].Expr.val.v) = 2
    /\ ValEq(body.Attributes[1].Expr.val.v[1], ElemInputs[1])
    /\ ValEq(body.Attributes[1].Expr.val.v[2], ElemInputs[2])
    /\ HasErrors(decodeRes.diags)
    /\ PvEq(msg.vals[1], PV("list", <<>>))

\* The inclusive range of an integer kind.
MinOf(kind) ==
    IF kind \in {"int32", "sint32", "sfixed32"} THEN Num(TRUE, Pow2(31), FALSE)
    ELSE IF kind \in {"int64", "sint64", "sfixed64"} THEN Num(TRUE, Pow2(63), FALSE)
    ELSE NumZero
MaxOf(kind) ==
    IF kind \in {"int32", "sint32", "sfixed32"} THEN Num(FALSE, MagDec(Pow2(31)), FALSE)
    ELSE IF kind \in {"int64", "sint64", "sfixed64"} THEN Num(FALSE, MagDec(Pow2(63)), FALSE)
    ELSE IF kind \in {"uint32", "fixed32"} THEN Num(FALSE, MagDec(Pow2(32)), FALSE)
    ELSE Num(FALSE, MagDec(Pow2(64)), FALSE)
IsWhole(v) == v.inf = "no" /\ ~v.frac
\* v < w and v > w for whole numbers
Below(v, w) == IntCmp(v, w) < 0
Above(v, w) == IntCmp(v, w) > 0

\* C6: for an Attribute on a 32- or 64-bit integer field and a known
\* non-null number v, the field is set to v iff v is integral and within
\* the inclusive range of the kind; otherwise exactly one error diagnostic
\* is emitted ("whole number" for a non-integral v, else "greater than or
\* equal to", else "less than or equal to") and the field stays cleared.
C6_IntegerRangeChecked ==
    (pc # "start" /\ desc.FullName = "test.WithNumberAttr") =>
        LET kind == desc.Fields[1].kind
            v == body.Attributes[1].Expr.val.v
        IN /\ decodeRes.out = "ok"
           /\ IF IsWhole(v) /\ ~Below(v, MinOf(kind)) /\ ~Above(v, MaxOf(kind))
              THEN /\ msg.vals[1].g = GoType(kind) /\ IntCmp(msg.vals[1].v, v) = 0
                   /\ decodeRes.diags = <<>>
              ELSE /\ PvEq(msg.vals[1], DefaultValue(desc.Fields[1]))
                   /\ Len(decodeRes.diags) = 1
                   /\ decodeRes.diags[1].Severity = "error"
                   /\ decodeRes.diags[1].Detail =
                          IF ~IsWhole(v) THEN "The value must be a whole number."
                          ELSE IF Below(v, MinOf(kind)) THEN "The value must be greater than or equal to %d."
                          ELSE "The value must be less than or equal to %d."

\* The nesting depth of a descriptor of the Flatten family.
RECURSIVE DepthOf(_)
DepthOf(d) == IF d.FullName = "test.WithFlatten" THEN 1 + DepthOf(d.Fields[1].message) ELSE 0
\* The string an attribute of the Flatten family holds after decoding: the
\* body's value, or the zero value when the body gives none or gives null.
InputString(name) ==
    IF HasName(body.Attributes, name) /\ ByName(body.Attributes, name).Expr.val.st = "known"
    THEN ByName(body.Attributes, name).Expr.val.v ELSE ""
\* Every Flatten field is set to a child message, and every attribute is
\* stored in the (sub)message that declares it.
RECURSIVE FlattenFilled(_, _)
FlattenFilled(m, d) ==
    IF d.FullName # "test.WithFlatten" THEN PvEq(m.vals[1], PV("string", InputString("name")))
    ELSE /\ m.vals[1].g = "message" /\ m.vals[1].v.set
         /\ FlattenFilled(m.vals[1].v, d.Fields[1].message)
         /\ PvEq(m.vals[2], PV("string", InputString(d.Fields[2].attr.Name)))

\* C10: for a descriptor whose attributes are spread over nested Flatten
\* fields, DecodeBody fills each attribute into the (sub)message declaring
\* it and sets every Flatten field to a child message, and the reflected
\* object is flat: its attribute names are the union of the declared names
\* and its values are the input values (the empty string for an attribute
\* the body leaves out or sets to null).
C10_FlattenRoundTrip ==
    (pc \in {"reflected", "done"} /\ desc.FullName = "test.WithFlatten") =>
        /\ decodeRes.out = "ok"
        /\ FlattenFilled(msg, desc)
        /\ valueRes.out = "ok"
        /\ ValEq(valueRes.val, ObjectValOfMap([n \in {FlattenNames[k] : k \in 1..(DepthOf(desc) + 1)} |->
                                                  StringVal(InputString(n))]))

\* Attributes declared at three levels, all set by the body, reflected.
C10_Witness ==
    /\ pc = "reflected" /\ desc.FullName = "test.WithFlatten" /\ DepthOf(desc) >= 2
    /\ Len(body.Attributes) = DepthOf(desc) + 1
    /\ \A k \in 1..Len(body.Attributes) : body.Attributes[k].Expr.val.st = "known"
    /\ valueRes.out = "ok"
    /\ Len(valueRes.val.v) = DepthOf(desc) + 1

\* The raw JSON attribute of the descriptor under test, the value V the
\* body sets it to and its declared type constraint T.
IsRawJSON == desc.FullName = "test.WithRawAttr" /\ desc.Fields[1].attr.Raw = "JSON"
RawElem == GetFieldElem(desc.Fields[1]).elem
RawV == body.Attributes[1].Expr.val
RawT == TypeConstraint(RawElem).ty
ByKey(entries, k) == entries[CHOOSE i \in 1..Len(entries) : entries[i].k = k].v
ReflectedRaw == ByKey(valueRes.val.v, "raw")

RECURSIVE IsEncodable(_)
IsEncodable(val) ==
    IF val.st = "unknown" THEN FALSE
    ELSE IF val.st = "null" THEN TRUE
    ELSE IF val.ty.t = "number" THEN val.v.inf = "no"
    ELSE IF IsSequenceTy(val.ty) THEN \A i \in 1..Len(val.v) : IsEncodable(val.v[i])
    ELSE IF IsMappingTy(val.ty) THEN \A i \in 1..Len(val.v) : IsEncodable(val.v[i].v)
    ELSE TRUE

C3_ValueConformsToConstraint ==
    (pc = "typed" /\ valueRes.out = "ok") =>
        /\ typeRes.out = "ok"
        /\ Conforms(valueRes.val.ty, typeRes.ty)
        /\ Convert(valueRes.val, typeRes.ty).ok
        /\ Convert(valueRes.val, typeRes.ty).val.ty = valueRes.val.ty

(***************************************************************************)
(* Claims about singleton blocks.                                          *)
(***************************************************************************)
\* The positions, in source order, of the blocks of a type.
PositionsOfType(blocks, type) ==
    SelectSeq([p \in 1..Len(blocks) |-> p], LAMBDA p : blocks[p].Type = type)
DuplicatesOf(diags, type) ==
    SelectSeq(diags, LAMBDA d : d.Summary = "Duplicate " \o type \o " block")

\* C11: for a non-repeated NestedBlock field of block type T and a body
\* with two or more blocks of type T, DecodeBody sets the field to the
\* decoding of the first such block, emits exactly one "Duplicate T block"
\* error whose subject is the second block and whose detail names the range
\* of the first, and neither decodes nor stores any later block of type T.
C11_DuplicateBlockReported ==
    (pc # "start" /\ decodeRes.out = "ok") =>
        \A i \in FieldsOfKind("FieldNestedBlockType") :
            LET elem == GetFieldElem(desc.Fields[i]).elem
                blocks == Content(body, bodySchema(desc)).content.Blocks
                at == PositionsOfType(blocks, elem.TypeName)
                dups == DuplicatesOf(decodeRes.diags, elem.TypeName)
            IN (~elem.Repeated /\ Len(at) >= 2) =>
                  /\ PvEq(msg.vals[i], PV("message", newMessageForBlock(blocks[at[1]], elem).msg))
                  /\ Len(dups) = 1
                  /\ dups[1].Severity = "error"
                  /\ dups[1].Subject = BlockRange(at[2])
                  /\ dups[1].Detail = "There may be no more than one " \o elem.TypeName
                                         \o " block. Previous block declared at " \o BlockRange(at[1]) \o "."
                  /\ Len(desc.Fields) = 1 =>
                         decodeRes.diags = Content(body, bodySchema(desc)).diags
                                               \o newMessageForBlock(blocks[at[1]], elem).diags \o <<dups[1]>>

\* Three blocks of the singleton type, the last with an expression that
\* fails: the first is stored, one diagnostic reports the second, and the
\* third left no trace.
C11_Witness ==
    /\ pc = "decoded" /\ decodeRes.out = "ok"
    /\ desc.FullName = "test.WithSingletonBlock"
    /\ Len(body.Blocks) = 3
    /\ ~body.Blocks[1].Body.Attributes[1].Expr.fails /\ body.Blocks[3].Body.Attributes[1].Expr.fails
    /\ PvEq(msg.vals[1], PV("message", MessageOf(<<PV("string", "m")>>)))
    /\ Len(decodeRes.diags) = 1
    /\ decodeRes.diags[1].Subject = BlockRange(2)

(***************************************************************************)
(* Claims about the reflection of repeated blocks and of attributes.       *)
(***************************************************************************)
\* The child messages of the repeated block field of the descriptor under
\* test, each reflected on its own, and the attribute reflected for them.
BlockElem == GetFieldElem(desc.Fields[1]).elem
ReflectedChildren ==
    [j \in 1..Len(msg.vals[1].v) |-> objectValueForMessage(msg.vals[1].v[j].v, BlockElem.Nested)]
ReflectedBlocks == ByKey(valueRes.val.v, "a")

\* C12: for a repeated NestedBlock field holding the children v1..vn,
\* ObjectValueForMessage gives the block-type attribute the collection of
\* the field's kind built from the reflected children: LIST a list of n
\* objects in input order, SET the set of the distinct objects, TUPLE (or
\* AUTO) a tuple of n objects in input order; for n = 0, LIST and SET give
\* an empty collection whose element type is the child's object constraint.
C12_RepeatedBlocksReflected ==
    (/\ pc \in {"reflected", "typed"}
     /\ desc.FullName = "test.WithBlockOf" /\ IsList(desc.Fields[1])
     /\ \A j \in 1..Len(ReflectedChildren) : ReflectedChildren[j].out = "ok"
     /\ ObjectTypeConstraintForMessageDesc(BlockElem.Nested).out = "ok") =>
        /\ valueRes.out = "ok"
        /\ LET n == Len(ReflectedChildren)
               nestedTy == ObjectTypeConstraintForMessageDesc(BlockElem.Nested).ty
               kind == desc.Fields[1].block.Kind
           IN IF kind = "LIST" THEN
                  /\ ReflectedBlocks.ty = TyList(IF n = 0 THEN nestedTy ELSE ReflectedChildren[1].val.ty)
                  /\ Len(ReflectedBlocks.v) = n
                  /\ \A j \in 1..n : ValEq(ReflectedBlocks.v[j], ReflectedChildren[j].val)
              ELSE IF kind = "SET" THEN
                  /\ ReflectedBlocks.ty = TySet(IF n = 0 THEN nestedTy ELSE ReflectedChildren[1].val.ty)
                  /\ {ReflectedBlocks.v[j] : j \in 1..Len(ReflectedBlocks.v)}
                         = {ReflectedChildren[j].val : j \in 1..n}
                  /\ \A j, k \in 1..Len(ReflectedBlocks.v) : ReflectedBlocks.v[j] = ReflectedBlocks.v[k] => j = k
              ELSE
                  /\ ReflectedBlocks.ty = TyTuple([j \in 1..n |-> ReflectedChildren[j].val.ty])
                  /\ Len(ReflectedBlocks.v) = n
                  /\ \A j \in 1..n : ValEq(ReflectedBlocks.v[j], ReflectedChildren[j].val)

\* The attribute of the descriptor of the stored-attribute family, its type
\* constraint, and the values the field stores, as cty values.
StoredElem == GetFieldElem(desc.Fields[1]).elem
StoredGoValue(pv) ==
    IF pv.g = "string" THEN StringVal(pv.v) ELSE IF pv.g = "bool" THEN BoolVal(pv.v) ELSE NumberVal(pv.v)
StoredPrimitive ==
    IF desc.Fields[1].kind = "string" THEN TyString ELSE IF desc.Fields[1].kind = "bool" THEN TyBool ELSE TyNumber
DeclaredType ==
    IF StoredElem.TypeExprString = "number" THEN TyNumber
    ELSE IF StoredElem.TypeExprString = "set(string)" THEN TySet(TyString)
    ELSE IF StoredElem.TypeExprString = "list(number)" THEN TyList(TyNumber)
    ELSE IF StoredElem.TypeExprString = "map(number)" THEN TyMap(TyNumber)
    ELSE IF IsList(desc.Fields[1]) THEN TyList(StoredPrimitive)
    ELSE IF IsMap(desc.Fields[1]) THEN TyMap(StoredPrimitive)
    ELSE StoredPrimitive
DeclaredElemType == IF IsPrimitive(DeclaredType) THEN DeclaredType ELSE DeclaredType.e[1]
ConvertPrimitiveOrSame(val, ty) == IF val.ty = ty THEN ConvertOk(val) ELSE ConvertPrimitive(val, ty)
\* The stored scalars, each converted to the element type of the constraint.
StoredConverted ==
    IF IsList(desc.Fields[1])
    THEN [j \in 1..Len(msg.vals[1].v) |-> ConvertPrimitiveOrSame(StoredGoValue(msg.vals[1].v[j]), DeclaredElemType)]
    ELSE IF IsMap(desc.Fields[1])
    THEN [j \in 1..Len(msg.vals[1].v) |-> ConvertPrimitiveOrSame(StoredGoValue(msg.vals[1].v[j].v), DeclaredElemType)]
    ELSE <<ConvertPrimitiveOrSame(StoredGoValue(msg.vals[1]), DeclaredElemType)>>
ReflectedAttr == ByKey(valueRes.val.v, "nums")

\* C13: for an Attribute field that is not raw, ObjectValueForMessage
\* yields the stored value converted to the declared or inferred type
\* constraint: a repeated field declared set(T) a set, an undeclared
\* repeated field list(T), a map field map(T), an empty repeated field an
\* empty collection of the declared type, a string field declared number
\* the number the string denotes; when a stored value cannot be converted
\* the call fails with an "invalid encoding" error and returns no object.
C13_AttributeReflectedAsDeclared ==
    (pc \in {"reflected", "typed"} /\ desc.FullName = "test.WithStoredAttr") =>
        IF \E j \in 1..Len(StoredConverted) : ~StoredConverted[j].ok THEN
            /\ valueRes.out = "error"
            /\ valueRes.err.Err.format = "invalid encoding of %s value as %s: %s"
        ELSE
            /\ valueRes.out = "ok"
            /\ Len(valueRes.val.v) = 1
            /\ ReflectedAttr.st = "known"
            /\ ReflectedAttr.ty = DeclaredType
            /\ IF IsPrimitive(DeclaredType) THEN ReflectedAttr.v = StoredConverted[1].val.v
               ELSE IF DeclaredType.t = "set" THEN
                   /\ {ReflectedAttr.v[j] : j \in 1..Len(ReflectedAttr.v)}
                          = {StoredConverted[j].val : j \in 1..Len(StoredConverted)}
                   /\ \A j, k \in 1..Len(ReflectedAttr.v) : ReflectedAttr.v[j] = ReflectedAttr.v[k] => j = k
               ELSE IF DeclaredType.t = "list" THEN
                   /\ Len(ReflectedAttr.v) = Len(StoredConverted)
                   /\ \A j \in 1..Len(StoredConverted) : ReflectedAttr.v[j] = StoredConverted[j].val
               ELSE
                   /\ Len(ReflectedAttr.v) = Len(StoredConverted)
                   /\ \A j \in 1..Len(StoredConverted) :
                         /\ ReflectedAttr.v[j].k = msg.vals[1].v[j].k
                         /\ ReflectedAttr.v[j].v = StoredConverted[j].val

\* A repeated string field declared set(string) that stores "x" twice
\* reflects as a set of one element.
C13_Witness ==
    /\ pc = "reflected" /\ desc.FullName = "test.WithStoredAttr"
    /\ StoredElem.TypeExprString = "set(string)" /\ desc.Fields[1].kind = "string"
    /\ Len(msg.vals[1].v) = 2 /\ msg.vals[1].v[1].v = "x" /\ msg.vals[1].v[2].v = "x"
    /\ valueRes.out = "ok"
    /\ ReflectedAttr.ty = TySet(TyString) /\ Len(ReflectedAttr.v) = 1

(***************************************************************************)
(* Claims about null and unknown values of attributes.                     *)
(***************************************************************************)
IsRawAttr == desc.FullName = "test.WithRawAttr"
NullIntoOptionalRaw == IsRawAttr /\ ~RawElem.Required /\ IsNull(RawV)

\* What C14 promises of a null value given to an optional raw attribute.
NullLeftEmpty ==
    /\ pc # "start" =>
          /\ decodeRes.out = "ok"
          /\ decodeRes.diags = <<>>
          /\ PvEq(msg.vals[1], PV("bytes", EmptyBytes))
          /\ MsgEq(msg, DecodeBody(EmptyBody, desc).msg)
          /\ DecodeBody(EmptyBody, desc).diags = <<>>
    /\ pc \in {"reflected", "done"} =>
          /\ valueRes.out = "ok"
          /\ ValEq(ReflectedRaw, NullVal(RawT))
          /\ RawElem.TypeExprString = "any" => ReflectedRaw.ty = DynamicPseudoType

\* C14 as stated: decoding any null value into a raw attribute that is not
\* required leaves the bytes field empty with no diagnostic, as if the
\* attribute were omitted, and the empty field reflects as the null value
\* of the declared type constraint, in both raw modes.
C14_NullRawLeftEmpty == NullIntoOptionalRaw => NullLeftEmpty

\* C14, amended: the same for every null value whose type converts to the
\* declared type constraint; a null of a type that does not (a null list
\* given to a `number` attribute) is an unsuitable value like any other.
C14_ConvertibleNullRawLeftEmpty ==
    (NullIntoOptionalRaw /\ Convert(RawV, RawT).ok) => NullLeftEmpty

\* A null string given to a MessagePack raw attribute declared `number`:
\* nothing stored, nothing reported, reflected as a null number.
C14_Witness ==
    /\ pc = "reflected" /\ NullIntoOptionalRaw
    /\ desc.Fields[1].attr.Raw = "MESSAGEPACK" /\ RawElem.TypeExprString = "number"
    /\ RawV.ty = TyString
    /\ decodeRes.diags = <<>> /\ PvEq(msg.vals[1], PV("bytes", EmptyBytes))
    /\ ValEq(ReflectedRaw, NullVal(TyNumber))

IsCollectionAttr == desc.FullName = "test.WithCollectionAttr"
\* The value a body of the collection family gives to "nums" when it gives
\* one that evaluates; whether it converts by both conversions of decode.
GivenValue == body.Attributes[1].Expr.val
HasGivenValue == Len(body.Attributes) = 1 /\ ~body.Attributes[1].Expr.fails
GivenWantTy == TypeConstraint(GetFieldElem(desc.Fields[1]).elem).ty
ConvertsToField(val, f) ==
    /\ Convert(val, GivenWantTy).ok
    /\ valuePhysicalConstraintForFieldKind(Convert(val, GivenWantTy).val.ty, f).ok
    /\ Convert(Convert(val, GivenWantTy).val,
               valuePhysicalConstraintForFieldKind(Convert(val, GivenWantTy).val.ty, f).ty).ok
\* Whether no value nested in a value is null.
RECURSIVE HasNoNull(_)
HasNoNull(val) ==
    IF val.st = "null" THEN FALSE
    ELSE IF val.st = "unknown" THEN TRUE
    ELSE IF IsSequenceTy(val.ty) THEN \A i \in 1..Len(val.v) : HasNoNull(val.v[i])
    ELSE IF IsMappingTy(val.ty) THEN \A i \in 1..Len(val.v) : HasNoNull(val.v[i].v)
    ELSE TRUE
UnknownNotAllowed(diags) ==
    \E i \in 1..Len(diags) :
        /\ diags[i].Severity = "error"
        /\ diags[i].Summary = unsuitableValueSummary
        /\ diags[i].Detail = "Unknown values are not allowed here."

\* C15: for an attribute that is not raw, a value that is unknown as a whole
\* or in any element makes decode return normally with an "Unknown values
\* are not allowed here" error and the field cleared; for a raw attribute
\* an unknown value is stored by the codec with no error diagnostic, and
\* is reflected as unknown.
C15_UnknownRejectedUnlessRaw ==
    /\ (pc # "start" /\ IsCollectionAttr /\ HasGivenValue
           /\ ~IsWhollyKnown(GivenValue) /\ HasNoNull(GivenValue)
           /\ ConvertsToField(GivenValue, desc.Fields[1])) =>
          /\ decodeRes.out = "ok"
          /\ UnknownNotAllowed(decodeRes.diags)
          /\ PvEq(msg.vals[1], DefaultValue(desc.Fields[1]))
    /\ (pc # "start" /\ IsRawAttr /\ ~IsKnown(RawV) /\ Convert(RawV, RawT).ok) =>
          /\ decodeRes.out = "ok"
          /\ ~HasErrors(decodeRes.diags)
          /\ ~PvEq(msg.vals[1], PV("bytes", EmptyBytes))
          /\ pc \in {"reflected", "done"} =>
                valueRes.out = "ok" /\ ReflectedRaw.st = "unknown"

(***************************************************************************)
(* Claims about the walk over the fields.                                  *)
(***************************************************************************)
IsTwoFields == desc.FullName = "test.WithTwoFields"
IsFieldA(f) == (f.attr.present /\ f.attr.Name = "num") \/ (f.block.present /\ f.block.TypeName = "b")
IndexA == CHOOSE i \in 1..2 : IsFieldA(desc.Fields[i])
IndexB == 3 - IndexA
\* The part of a body that is A's input, and the body with A's input
\* replaced by a valid one: the number 1, or the first "b" block alone.
IsNumAttr(a) == a.Name = "num"
IsOfTypeB(b) == b.Type = "b"
IsNotOfTypeB(b) == b.Type # "b"
InputOfA(b) == Body(SelectSeq(b.Attributes, IsNumAttr), SelectSeq(b.Blocks, IsOfTypeB))
WithValidA(b) ==
    Body([i \in 1..Len(b.Attributes) |->
             IF IsNumAttr(b.Attributes[i]) THEN Attribute("num", ValidNum) ELSE b.Attributes[i]],
         (IF Len(SelectSeq(b.Blocks, IsOfTypeB)) = 0 THEN <<>> ELSE <<Head(SelectSeq(b.Blocks, IsOfTypeB))>>)
         \o SelectSeq(b.Blocks, IsNotOfTypeB))
\* The diagnostics of decoding A's input into a message that has field A only.
DiagsOfA == DecodeBody(InputOfA(body), Named("test.WithTwoFields", <<desc.Fields[IndexA]>>)).diags

\* C16: in a message with two annotated fields A and B, a value error in
\* A's input neither stops the walk over the fields nor changes what is
\* stored in B: B holds what decode stores when A's input is valid, and
\* every diagnostic of A is in the returned list.
C16_ValueErrorLeavesOtherField ==
    (pc # "start" /\ IsTwoFields) =>
        /\ decodeRes.out = "ok"
        /\ DecodeBody(WithValidA(body), desc).out = "ok"
        /\ ~HasErrors(DecodeBody(WithValidA(body), desc).diags)
        /\ PvEq(msg.vals[IndexB], DecodeBody(WithValidA(body), desc).msg.vals[IndexB])
        /\ \A i \in 1..Len(DiagsOfA) : \E j \in 1..Len(decodeRes.diags) : decodeRes.diags[j] = DiagsOfA[i]

\* A comes first and its expression fails: the error is reported and the
\* species given for B is stored.
C16_Witness ==
    /\ pc = "decoded" /\ IsTwoFields /\ IndexA = 1
    /\ desc.Fields[1].attr.present /\ desc.Fields[2].attr.present
    /\ Len(body.Attributes) = 2 /\ body.Attributes[1].Expr.fails
    /\ HasErrors(DiagsOfA) /\ HasErrors(decodeRes.diags)
    /\ PvEq(msg.vals[2], PV("string", "x"))
    /\ PvEq(msg.vals[1], DefaultValue(desc.Fields[1]))

(***************************************************************************)
(* Claims about repeated runs.                                             *)
(***************************************************************************)
\* C17: two runs of decode on the same body and descriptor return equal
\* messages and the same diagnostics in the same order, also when several
\* elements of one map or list attribute are invalid or unknown.
C17_DecodeIsFunction ==
    (pc = "rerun" /\ decodeRes.out = "ok" /\ again.out = "ok") =>
        /\ MsgEq(again.msg, decodeRes.msg)
        /\ again.diags = decodeRes.diags

(***************************************************************************)
(* Claims about the fields GetFieldElem accepts.                           *)
(***************************************************************************)
IsSingularString(f) == f.kind = "string" /\ f.card = "single"

\* C18: GetFieldElem returns a schema error for every field that carries a
\* BlockLabel annotation and is not a singular string field, so that no
\* such field is returned as a FieldBlockLabel element.
C18_LabelOnlyOnSingularString ==
    (pc = "done" /\ HasLabel(field) /\ ~IsSingularString(field)) =>
        /\ elemRes.out = "error"
        /\ elemRes.elem = NilElem

IsRaw(f) == f.attr.Raw # "NOT_RAW"
RawAllowed(f) == f.card = "single" /\ f.kind = "bytes" /\ f.attr.Type # ""

SchemaBugSummary == "Invalid configuration schema"
\* The runs of decode that meet a schema problem: a descriptor whose body
\* schema cannot be built, or a value decoded into a mistyped attribute.
MeetsSchemaProblem ==
    \/ desc.FullName \in {"test.Collision", "test.Contradiction", "test.BlockCollision"}
    \/ /\ desc.FullName \in {"test.BadTypeExpr", "test.MessageKind", "test.MessageKindTyped", "test.RawUntyped"}
       /\ Len(body.Attributes) = 1

\* C20: every schema problem met during decode is in the returned list as
\* an error with the summary "Invalid configuration schema", and the list
\* holds no "Unsuitable attribute value" error for it and no diagnostic of
\* the type-expression parser.
C20_SchemaProblemsClassified ==
    (pc # "start" /\ MeetsSchemaProblem) =>
        /\ decodeRes.out = "ok"
        /\ \E i \in 1..Len(decodeRes.diags) :
              decodeRes.diags[i].Severity = "error" /\ decodeRes.diags[i].Summary = SchemaBugSummary
        /\ \A i \in 1..Len(decodeRes.diags) : decodeRes.diags[i].Summary = SchemaBugSummary

(***************************************************************************)
(* Claims about attributes of message kind.                                *)
(***************************************************************************)
IsMessageAttr == desc.FullName = "test.WithMessageField"
MessageElem == GetFieldElem(desc.Fields[1]).elem
\* What the message-attr builder chosen for the field returns for the value.
BuiltForField == valueForMessageField(GivenValue, MessageElem)
HasSchemaBug(diags) ==
    \E i \in 1..Len(diags) : diags[i].Severity = "error" /\ diags[i].Summary = SchemaBugSummary

\* C21: when decode meets an attribute of message kind it takes the field
\* value from the message-attr builder of the target message type: for
\* google.protobuf.Value a known, non-null value of the declared
\* constraint is marshalled and stored with no diagnostic; for any other
\* target the outcome is a schema-error diagnostic and a cleared field.
C21_MessageAttrBuilt ==
    (pc # "start" /\ IsMessageAttr /\ isMessageField(MessageElem)) =>
        /\ decodeRes.out = "ok"
        /\ (/\ desc.Fields[1].message.FullName = structpbValueName
            /\ IsWhollyKnown(GivenValue) /\ ~IsNull(GivenValue)
            /\ BuiltForField.out = "ok") =>
               /\ decodeRes.diags = <<>>
               /\ PvEq(msg.vals[1], BuiltForField.pv)
        /\ (/\ desc.Fields[1].message.FullName # structpbValueName
            /\ Convert(GivenValue, GivenWantTy).ok /\ ~IsNull(GivenValue)) =>
               /\ HasSchemaBug(decodeRes.diags)
               /\ PvEq(msg.vals[1], DefaultValue(desc.Fields[1]))

IsStructpbList == field.card = "list" /\ field.message.FullName = structpbValueName
BuilderWantTy == TypeConstraint(GetFieldElem(field).elem)
BuilderValue == body.Attributes[1].Expr.val
IsSequenceValue(v) == v.st = "known" /\ v.ty.t \in {"list", "set", "tuple"}
ElemConstraintOf(ty, i) == IF ty.t = "dynamic" THEN ty ELSE IF ty.t = "tuple" THEN ty.e[i] ELSE ty.e[1]

\* C22: for an attribute on a repeated google.protobuf.Value field the
\* builder is constructed when the declared constraint is dynamic, a list,
\* a set or a tuple type; applied to a known, non-null list, set or tuple
\* it marshals each element against the element type of the constraint, or
\* the positional element type of a tuple of arity n, where a value of n
\* elements yields n elements and any other length the value error "wrong
\* number of elements".
C22_RepeatedStructpbBuilt ==
    (pc = "built" /\ IsStructpbList /\ ~HasErrors(BuilderWantTy.diags)
        /\ BuilderWantTy.ty.t \in {"dynamic", "list", "set", "tuple"}) =>
        /\ builtRes.out # "panic"
        /\ builtRes.kind # "schemaError"
        /\ IsSequenceValue(BuilderValue) =>
              IF BuilderWantTy.ty.t = "tuple" /\ Len(BuilderValue.v) # Len(BuilderWantTy.ty.e) THEN
                  /\ builtRes.out = "error" /\ builtRes.kind = "attrValueError"
                  /\ builtRes.err.Err.format = "wrong number of elements (need %d)"
              ELSE IF \A i \in 1..Len(BuilderValue.v) :
                         ToStructValue(BuilderValue.v[i], ElemConstraintOf(BuilderWantTy.ty, i)).ok THEN
                  /\ builtRes.out = "ok"
                  /\ Len(builtRes.pv.v) = Len(BuilderValue.v)
                  /\ \A i \in 1..Len(BuilderValue.v) :
                        PvEq(builtRes.pv.v[i],
                             PV("message", StructValueMessage(
                                 ToStructValue(BuilderValue.v[i], ElemConstraintOf(BuilderWantTy.ty, i)).bytes)))
              ELSE builtRes.out = "error" /\ builtRes.kind = "attrValueError"

(***************************************************************************)
(* Claims about repeated fields declared as a set or a list.               *)
(***************************************************************************)
IsStringSeq == desc.FullName = "test.WithStringSeqAttr"
GivenStrings == [i \in 1..Len(GivenValue.v) |-> GivenValue.v[i].v]
StoredStringsOf(pv) == [i \in 1..Len(pv.v) |-> pv.v[i].v]
Occurrences(seq, x) == Cardinality({i \in 1..Len(seq) : seq[i] = x})
StringIndex(str) == CHOOSE k \in 1..Len(StringOrder) : StringOrder[k] = str

IsScalarAttr == desc.FullName = "test.WithScalarAttr"
\* The Go type of the value protoreflect stores in a field of a kind.
StoredKind(kind) ==
    IF kind \in {"int32", "sint32", "sfixed32"} THEN "int32"
    ELSE IF kind \in {"int64", "sint64", "sfixed64"} THEN "int64"
    ELSE IF kind \in {"uint32", "fixed32"} THEN "uint32"
    ELSE IF kind \in {"uint64", "fixed64"} THEN "uint64"
    ELSE kind
ConvertsToScalar ==
    /\ Convert(GivenValue, GivenWantTy).ok
    /\ Convert(Convert(GivenValue, GivenWantTy).val, physicalConstraintForFieldKindSingle(desc.Fields[1]).ty).ok

\* C25: for a field of any scalar kind the physical constraints accept
\* (bool, the integer kinds, float, double, string), decoding a known,
\* non-null value that converts to the field returns normally and stores a
\* value of the exact kind of the field; none of these kinds reaches the
\* unhandled-kind branch of the value encoder.
C25_AcceptedScalarKindsStored ==
    (/\ pc # "start" /\ IsScalarAttr
     /\ physicalConstraintForFieldKindSingle(desc.Fields[1]).ok
     /\ ConvertsToScalar) =>
        /\ decodeRes.out = "ok"
        /\ decodeRes.diags = <<>>
        /\ msg.vals[1].g = StoredKind(desc.Fields[1].kind)

(***************************************************************************)
(* Claims about block labels.                                              *)
(***************************************************************************)
IsLabelled == desc.FullName = "test.WithLabelledBlocks"
LabelChild == desc.Fields[1].message
IsLabelPosition(i) ==
    /\ GetFieldElem(LabelChild.Fields[i]).out = "ok"
    /\ GetFieldElem(LabelChild.Fields[i]).elem.k = "FieldBlockLabel"
LabelPositions == SelectSeq([i \in 1..Len(LabelChild.Fields) |-> i], IsLabelPosition)
SchemaLabelNames == bodySchema(desc).schema.Blocks[1].LabelNames
HasSchemaLabels(blk) == Len(blk.Labels) = Len(SchemaLabelNames)
AcceptedBlocks == SelectSeq(body.Blocks, HasSchemaLabels)
BoundMessage(blk) == newMessageForBlock(blk, GetFieldElem(desc.Fields[1]).elem)

\* C26: the label names in the header schema of a nested block type are
\* the names of the BlockLabel fields of its message, in descriptor order;
\* the decoder binds as many labels as the schema names, the i-th label of
\* a block into the i-th BlockLabel field of the message it makes for the
\* block, and never reads a label the block does not have.
C26_LabelsBoundInOrder ==
    (pc # "start" /\ IsLabelled) =>
        /\ SchemaLabelNames = [i \in 1..Len(LabelPositions) |-> LabelChild.Fields[LabelPositions[i]].label.Name]
        /\ decodeRes.out = "ok"
        /\ \A k \in 1..Len(AcceptedBlocks) :
              /\ BoundMessage(AcceptedBlocks[k]).out = "ok"
              /\ \A i \in 1..Len(LabelPositions) :
                    PvEq(BoundMessage(AcceptedBlocks[k]).msg.vals[LabelPositions[i]],
                         PV("string", AcceptedBlocks[k].Labels[i]))

(***************************************************************************)
(* Claims about the order of the diagnostics.                              *)
(***************************************************************************)
IsOrdered == desc.FullName = "test.WithOrdered"
RECURSIVE DiagsInOrder(_)
\* The diagnostics of a sequence of parts, one part after the other.
DiagsInOrder(parts) == IF parts = <<>> THEN <<>> ELSE Head(parts) \o DiagsInOrder(Tail(parts))
ContentDiags == Content(body, bodySchema(desc)).diags
OrderedAttrIndex == IF desc.Fields[1].attr.present THEN 1 ELSE 2
\* The diagnostics of the elements of "nums", in the order of its elements.
ElementDiags ==
    DiagsInOrder([i \in 1..Len(GivenValue.v) |->
        protoValueForSingletonFieldKind(IF GivenValue.ty.t = "object" THEN GivenValue.v[i].v ELSE GivenValue.v[i],
                                        "nums", MapValue(desc.Fields[OrderedAttrIndex])).diags])
\* The diagnostics of the blocks, in the order of the blocks in the body.
BlockDiags == DiagsInOrder([i \in 1..Len(body.Blocks) |-> DecodeBody(body.Blocks[i].Body, OrderedChild).diags])

\* C27: the diagnostics come in the order of the traversal: those of the
\* schema and of the content first, then those of the fields in descriptor
\* order; within a nested block type in the order of the blocks in the
\* body, within a collection-valued attribute in the order of its elements.
C27_DiagnosticsInTraversalOrder ==
    /\ (pc # "start" /\ decodeRes.out = "ok" /\ bodySchema(desc).out = "ok") =>
          /\ Len(decodeRes.diags) >= Len(ContentDiags)
          /\ SubSeq(decodeRes.diags, 1, Len(ContentDiags)) = ContentDiags
    /\ (pc # "start" /\ IsOrdered) =>
          /\ decodeRes.out = "ok"
          /\ decodeRes.diags = IF OrderedAttrIndex = 1 THEN ElementDiags \o BlockDiags
                                ELSE BlockDiags \o ElementDiags

(***************************************************************************)
(* Claims about the methods of the error types.                            *)
(***************************************************************************)
ContainsPart(text, part) == \E i \in 1..Len(text.parts) : text.parts[i] = part

\* C28: for a schema error made for a declaration with a valid, non-empty
\* full name, Error() contains that name together with the reason, and the
\* diagnostic derived from the error names the same declaration.
C28_SchemaErrorNamesDeclaration ==
    (/\ pc = "described" /\ builtRes.kind = "schemaError"
     /\ builtRes.err.Decl # "" /\ IsValidName(builtRes.err.Decl)) =>
        /\ builtRes.message.out = "ok"
        /\ ContainsPart(builtRes.message, ReasonOf(builtRes.err))
        /\ ContainsPart(builtRes.message, builtRes.err.Decl)
        /\ builtRes.diag.Decl = builtRes.err.Decl
        /\ ContainsPart(builtRes.detail, builtRes.err.Decl)

\* C30: Error() on an attrValueError terminates and returns the message of
\* the path error it wraps, the message Unwrap() gives and Diagnostic()
\* puts in its detail.
C30_AttrValueErrorMessage ==
    (pc = "described" /\ builtRes.kind = "attrValueError") =>
        /\ builtRes.unwrapped.out = "ok"
        /\ builtRes.detail.out = "ok"
        /\ ContainsPart(builtRes.detail, ReasonOf(builtRes.err))
        /\ builtRes.message.out = "ok"
        /\ builtRes.message.parts = builtRes.unwrapped.parts

(***************************************************************************)
(* Claims about ObjectTypeConstraintForMessageDesc.                        *)
(***************************************************************************)
RECURSIVE AnnotatedFields(_)
\* The number of fields with an annotation in a descriptor, those of the
\* messages it flattens into itself included.
AnnotatedFields(d) ==
    LET Count(i) ==
            IF GetFieldElem(d.Fields[i]).out # "ok" \/ GetFieldElem(d.Fields[i]).elem.k = "nil" THEN 0
            ELSE IF GetFieldElem(d.Fields[i]).elem.k = "FieldFlattened"
                 THEN AnnotatedFields(d.Fields[i].message)
                 ELSE 1
        Sum[i \in 0..Len(d.Fields)] == IF i = 0 THEN 0 ELSE Sum[i - 1] + Count(i)
    IN Sum[Len(d.Fields)]
NestedType(elem) == ObjectTypeConstraintForMessageDesc(elem.Nested).ty
\* The type the attribute of a nested block type is to have.
BlockTypeOf(elem) ==
    IF elem.CollectionKind = "AUTO" THEN NestedType(elem)
    ELSE IF elem.CollectionKind = "TUPLE" THEN DynamicPseudoType
    ELSE IF elem.CollectionKind = "LIST" THEN TyList(NestedType(elem))
    ELSE TySet(NestedType(elem))
HasTypedAttribute(ty, name, aty) == HasAttribute(ty, name) /\ AttributeType(ty, name) = aty
FieldTyped(ty, elem) ==
    IF elem.k = "FieldAttribute" THEN HasTypedAttribute(ty, elem.Name, TypeConstraint(elem).ty)
    ELSE IF elem.k = "FieldBlockLabel" THEN HasTypedAttribute(ty, elem.Name, TyString)
    ELSE IF elem.k = "FieldNestedBlockType" THEN HasTypedAttribute(ty, elem.TypeName, BlockTypeOf(elem))
    ELSE IF elem.k = "FieldFlattened" THEN
        \A i \in 1..Len(NestedType(elem).e) :
            HasTypedAttribute(ty, AttrName(NestedType(elem).e[i]), AttrType(NestedType(elem).e[i]))
    ELSE TRUE
IsDynamicCollection(elem) ==
    /\ elem.k = "FieldNestedBlockType" /\ elem.CollectionKind \in {"LIST", "SET"}
    /\ ObjectTypeConstraintForMessageDesc(elem.Nested).out = "ok"
    /\ HasDynamicTypes(NestedType(elem))

\* C23: the object type of a message descriptor has one attribute for each
\* annotated field reachable through Flatten: an Attribute has its declared
\* or inferred type, a BlockLabel is a string, a NestedBlock is the object
\* of its message for a singleton, dynamic for TUPLE, a list of it for LIST
\* and a set of it for SET; LIST or SET over a message with a dynamic
\* component is a schema error; Flatten contributes the attributes of its
\* message.
C23_ObjectTypeOfDescriptor ==
    pc = "typed" =>
        /\ typeRes.out # "panic"
        /\ \A i \in 1..Len(desc.Fields) :
              (GetFieldElem(desc.Fields[i]).out = "ok" /\ IsDynamicCollection(GetFieldElem(desc.Fields[i]).elem)) =>
                  /\ typeRes.out = "error"
                  /\ typeRes.err.Decl = desc.Fields[i].FullName
        /\ typeRes.out = "ok" =>
              /\ typeRes.ty.t = "object"
              /\ Len(typeRes.ty.e) = AnnotatedFields(desc)
              /\ \A i \in 1..Len(desc.Fields) :
                    /\ GetFieldElem(desc.Fields[i]).out = "ok"
                    /\ FieldTyped(typeRes.ty, GetFieldElem(desc.Fields[i]).elem)
C23_Witness ==
    /\ pc = "typed" /\ typeRes.out = "ok"
    /\ desc.FullName = "test.WithBlockOf" /\ desc.Fields[1].block.Kind = "SET"
    /\ typeRes.ty = TyObject(<<TyAttr("a", TySet(TyObject(<<TyAttr("name", TyString), TyAttr("nickname", TyString)>>)))>>)

(***************************************************************************)
(* Claims about the names the walks over a descriptor write.               *)
(***************************************************************************)
\* C29: when bodySchema(D) succeeds, the walk over D and the messages it
\* flattens writes no attribute name of the resulting object more than
\* once: the object has as many attributes as there are annotated fields
\* on the way, so that no BlockLabel name of a flattened message overwrites
\* an attribute, a block type or a label of the enclosing message.
C29_NoNameWrittenTwice ==
    (pc = "done" /\ schemaRes.out = "ok") =>
        /\ ObjectTypeConstraintForMessageDesc(desc).out = "ok"
        /\ Len(ObjectTypeConstraintForMessageDesc(desc).ty.e) = AnnotatedFields(desc)

====
